---- MODULE Spec2Model ----
(***************************************************************************)
(* A model of the pacing engine (museun/pacing): the progress meter, the   *)
(* character ledgers (Stats, StatsBuilder, QuestBook, Inventory,           *)
(* Equipment, SpellBook), the Player and the Simulation tick engine.       *)
(*                                                                         *)
(* Conventions.                                                            *)
(*  - f32 seconds and Durations are integers in milliseconds; the          *)
(*    encumbrance meter counts items.  Rounding of f32 is not modelled.    *)
(*  - Option<T> is a sequence: <<>> is None and <<x>> is Some(x).          *)
(*  - A String is a sequence of words (the words are joined by single      *)
(*    spaces in the program); fixed texts are one-word sequences holding   *)
(*    the whole text.                                                      *)
(*  - A function that draws from the generator is a set-valued operator:   *)
(*    the set of the results it can return over all outcomes of its draws. *)
(***************************************************************************)
EXTENDS Integers, Sequences, FiniteSets, TLC

VARIABLES
    player,     \* Simulation.player: the Player record
    builder,    \* StatsBuilder.history
    bar,        \* a free-standing Bar
    call,       \* the last operation called, its arguments and what it saw
    panic       \* <<>> while the process runs, <<message>> once it panicked

vars == <<player, builder, bar, call, panic>>

(***************************************************************************)
(* Bounds of the model.                                                    *)
(***************************************************************************)
MaxBarValue == 3        \* Bar specification: pos, max and x range over 0..MaxBarValue
MaxStatValue == 2       \* Stats specification: each stat ranges over 3..3 + MaxStatValue
MaxQuantity == 2        \* Inventory specification: add_item quantities 1..MaxQuantity
MaxCarried == 14        \* Inventory specification: add_item is called while fewer are carried
ExtraQuests == 5        \* QuestBook specification: add_quest calls beyond MAX_QUESTS

Min(a, b) == IF a <= b THEN a ELSE b
Max(a, b) == IF a >= b THEN a ELSE b

None == <<>>
Some(x) == <<x>>
IsSome(o) == o /= <<>>
Unwrap(o) == o[1]

Range(s) == {s[i] : i \in 1..Len(s)}

(***************************************************************************)
(* config: the static catalogue.                                           *)
(***************************************************************************)
PRIME_STATS ==
    <<"Strength", "Condition", "Dexterity", "Intelligence", "Wisdom", "Charisma">>

ALL_STATS ==
    <<"Strength", "Condition", "Dexterity", "Intelligence", "Wisdom", "Charisma",
      "HpMax", "MpMax">>

\* The order of the Stat keys (Ord of the Stat enum): the order of Stats.values.
STAT_ORDER == ALL_STATS

(***************************************************************************)
(* Bar                                                                     *)
(***************************************************************************)
Bar_with_max(max) == [pos |-> 0, max |-> max]

Bar_remaining(b) == b.max - b.pos

Bar_increment_unclamped(b, pos) == [b EXCEPT !.pos = b.pos + pos]

\* Bar::increment that leaves the meter where it is.
Bar_increment_stuck(b, pos) == b

Bar_increment(b, pos) == [b EXCEPT !.pos = Min(b.pos + pos, b.max)]

Bar_is_done(b) == b.pos >= b.max

Bar_reset(b, max) == [[b EXCEPT !.max = max] EXCEPT !.pos = 0]

(***************************************************************************)
(* Stats                                                                   *)
(***************************************************************************)
\* Stats::new: the given pairs, every missing key with 0, in key order.
\* `given` is a function from some of the stat keys to their values.
Stats_new(given) ==
    [i \in 1..Len(STAT_ORDER) |->
        [stat |-> STAT_ORDER[i],
         value |-> IF STAT_ORDER[i] \in DOMAIN given THEN given[STAT_ORDER[i]] ELSE 0]]

\* Iterator::max_by_key over a sequence of [stat, value]: the fold keeps the
\* accumulator only when it compares Greater than the next element.
RECURSIVE max_by_key_from(_, _, _)
max_by_key_from(values, i, acc) ==
    IF i > Len(values) THEN acc
    ELSE max_by_key_from(values, i + 1,
                         IF acc.value > values[i].value THEN acc ELSE values[i])

max_by_key(values) == max_by_key_from(values, 2, values[1])

RECURSIVE first_max_from(_, _, _)
first_max_from(values, i, acc) ==
    IF i > Len(values) THEN acc
    ELSE first_max_from(values, i + 1,
                        IF values[i].value > acc.value THEN values[i] ELSE acc)

Stats_best_first(stats) == first_max_from(stats, 2, stats[1]).stat

Stats_best(stats) == max_by_key(stats).stat

Stats_best_prime(stats) ==
    max_by_key(SelectSeq(stats, LAMBDA e : e.stat \in Range(PRIME_STATS))).stat

Stats_increment(stats, stat, quantity) ==
    [i \in 1..Len(stats) |->
        IF stats[i].stat = stat
        THEN [stats[i] EXCEPT !.value = @ + quantity]
        ELSE stats[i]]

Stats_index(stats, stat) ==
    LET i == CHOOSE j \in 1..Len(stats) : stats[j].stat = stat
    IN  stats[i].value

(***************************************************************************)
(* QuestBook                                                               *)
(***************************************************************************)
MAX_QUESTS == 100

QuestBook_new ==
    [quests |-> <<>>, act |-> 0, monster |-> None,
     plot |-> Bar_with_max(1000), quest |-> Bar_with_max(1000)]

QuestBook_next_act_keeps(qb) == qb

QuestBook_next_act(qb) == [qb EXCEPT !.act = qb.act + 1]

RECURSIVE pop_front_while_full(_, _)
pop_front_while_full(quests, limit) ==
    IF Len(quests) >= limit
    THEN pop_front_while_full(Tail(quests), limit)
    ELSE quests

QuestBook_add_quest_no_evict(qb, quest) ==
    [qb EXCEPT !.quests = Append(qb.quests, quest)]

QuestBook_add_quest(qb, quest) ==
    [qb EXCEPT !.quests = Append(pop_front_while_full(qb.quests, MAX_QUESTS), quest)]

QuestBook_current_quest(qb) ==
    IF qb.quests = <<>> THEN None ELSE Some(qb.quests[Len(qb.quests)])

QuestBook_completed_quests(qb) ==
    SubSeq(qb.quests, 1, Max(Len(qb.quests) - 1, 0))

(***************************************************************************)
(* Inventory                                                               *)
(***************************************************************************)
RECURSIVE SumQuantities(_)
SumQuantities(items) ==
    IF items = <<>> THEN 0 ELSE items[1].quantity + SumQuantities(Tail(items))

Inventory_new(capacity) ==
    [capacity |-> capacity, gold |-> 0, items |-> <<>>,
     encumbrance |-> Bar_with_max(capacity)]

Inventory_is_empty_never(inv) == FALSE

Inventory_is_empty(inv) == Len(inv.items) = 0

Inventory_set_capacity(inv, cap) == [inv EXCEPT !.capacity = cap]

Inventory_add_gold(inv, quantity) == [inv EXCEPT !.gold = inv.gold + quantity]

Inventory_update_bar(inv) ==
    [inv EXCEPT !.encumbrance.pos = SumQuantities(inv.items)]

Inventory_add_item_always_push(inv, item, quantity) ==
    Inventory_update_bar(
        [inv EXCEPT !.items = Append(inv.items, [name |-> item, quantity |-> quantity])])

\* An existing name: the quantity is added to the first entry of that name and
\* the function returns before update_bar.
Inventory_add_item(inv, item, quantity) ==
    IF \E i \in 1..Len(inv.items) : inv.items[i].name = item
    THEN LET i == CHOOSE j \in 1..Len(inv.items) :
                    /\ inv.items[j].name = item
                    /\ \A k \in 1..(j - 1) : inv.items[k].name /= item
         IN  [inv EXCEPT !.items[i].quantity = @ + quantity]
    ELSE Inventory_update_bar(
            [inv EXCEPT !.items = Append(inv.items, [name |-> item, quantity |-> quantity])])

\* Inventory::pop without the update of the encumbrance meter.
Inventory_pop_stale(inv) ==
    [inv EXCEPT !.items = SubSeq(inv.items, 1, Len(inv.items) - 1)]

\* Called on a non-empty inventory; on an empty one the program panics.
Inventory_pop(inv) ==
    Inventory_update_bar([inv EXCEPT !.items = SubSeq(inv.items, 1, Len(inv.items) - 1)])

(***************************************************************************)
(* StatsBuilder                                                            *)
(***************************************************************************)
MAX_HISTORY == 10

StatsBuilder_default == <<>>

\* The draws of one roll: three draws below PRIME_STATS.len() for each prime
\* stat, one draw below ALL_STATS.len() for each of HpMax and MpMax.
Sum3(t) == t[1] + t[2] + t[3]

RolledStats(d) ==
    LET prime == [s \in Range(PRIME_STATS) |-> 3 + Sum3(d.prime[s])]
        all == [s \in Range(ALL_STATS) |->
                   IF s = "HpMax" THEN d.hp + prime["Condition"]
                   ELSE IF s = "MpMax" THEN d.mp + prime["Intelligence"]
                   ELSE prime[s]]
    IN  Stats_new(all)

StatsBuilder_roll(history, d) ==
    Append(pop_front_while_full(history, MAX_HISTORY), RolledStats(d))

StatsBuilder_has_history(history) == Len(history) > 1

\* The history after unroll; the value returned is its last entry, and the
\* unwrap of it panics when the history is empty.
StatsBuilder_unroll(history) ==
    IF Len(history) > 1 THEN SubSeq(history, 1, Len(history) - 1) ELSE history

\* The outcomes of the generator enumerated for a roll.
AllDraws(t, hp, mp) == [prime |-> [s \in Range(PRIME_STATS) |-> t], hp |-> hp, mp |-> mp]

RollDraws == {AllDraws(<<0, 0, 0>>, 0, 0), AllDraws(<<5, 5, 5>>, 7, 7)}

(***************************************************************************)
(* Equipment, SpellBook                                                    *)
(***************************************************************************)
EQUIPMENT_SLOTS ==
    <<"Weapon", "Shield", "Helm", "Hauberk", "Brassairts",
      "Vambraces", "Gauntlets", "Guisses", "Greaves", "Sollerets">>

\* An item name is its words and the signed number put before them (0: none).
ItemName(bonus, words) == [bonus |-> bonus, words |-> words]

\* Equipment.items is a map from the slots written so far to item names;
\* best is the name and the slot suffix.
Equipment_default ==
    [items |-> [s \in {"Weapon", "Hauberk"} |->
                   IF s = "Weapon" THEN ItemName(0, <<"Sharp Rock">>)
                   ELSE ItemName(-3, <<"Burlap">>)],
     best |-> [name |-> ItemName(0, <<"Sharp Rock">>), suffix |-> None]]

Equipment_add(eq, ty, name) ==
    [items |-> [s \in (DOMAIN eq.items) \cup {ty} |-> IF s = ty THEN name ELSE eq.items[s]],
     best |-> [name |-> name,
               suffix |-> IF ty \in {"Weapon", "Shield"} THEN Some("") ELSE Some(ty)]]

SpellBook_add(spells, name, level) ==
    IF \E i \in 1..Len(spells) : spells[i].name = name
    THEN LET i == CHOOSE j \in 1..Len(spells) :
                    /\ spells[j].name = name
                    /\ \A k \in 1..(j - 1) : spells[k].name /= name
         IN  [spells EXCEPT ![i].level = @ + level]
    ELSE Append(spells, [name |-> name, level |-> level])

(***************************************************************************)
(* Player                                                                  *)
(***************************************************************************)
\* level_up_time(level).as_secs() as f32, in milliseconds.
level_up_time(level) == 20 * level * 60 * 1000

Player_new(stats) ==
    [level |-> 1,
     stats |-> stats,
     elapsed |-> 0,
     quest_book |-> QuestBook_new,
     spell_book |-> <<>>,
     inventory |-> Inventory_new(10 + Stats_index(stats, "Strength")),
     equipment |-> Equipment_default,
     task |-> None,
     queue |-> <<>>,
     task_bar |-> Bar_with_max(1000),
     exp_bar |-> Bar_with_max(level_up_time(1))]

Player_set_task_keeps_meter(p, task) == [p EXCEPT !.task = Some(task)]

Player_set_task(p, task) ==
    [p EXCEPT !.task_bar = Bar_reset(p.task_bar, task.duration),
              !.task = Some(task)]

\* equipment_price without the quadratic term.
Player_equipment_price_linear(p) == 10 * p.level + 20

Player_equipment_price(p) == 5 * p.level * p.level + 10 * p.level + 20

(***************************************************************************)
(* config: the catalogue tables read by the engine.  Each table is a       *)
(* sequence, as in the program; the entries are a small sample.            *)
(***************************************************************************)
MONSTERS ==
    <<[name |-> "Rat", level |-> 0, item |-> Some("Tail")],
      [name |-> "Goblin", level |-> 1, item |-> None],
      [name |-> "Ogre", level |-> 5, item |-> Some("Talon")]>>

RACES == <<"Half Orc">>
CLASSES == <<"Ur-Paladin">>
TITLES == <<"Mr.", "Sir">>
IMPRESSIVE_TITLES == <<"King">>
SPELLS == <<"Slime Finger", "Rabbit Punch", "Hastiness">>
BORING_ITEMS == <<"nail">>
ITEM_ATTRIBUTES == <<"Golden">>
SPECIALS == <<"Diadem", "Festoon">>
ITEM_PREPOSITION == <<"Foreboding">>

WEAPONS == <<[name |-> "Stick", quality |-> 0], [name |-> "Broken Bottle", quality |-> 1]>>
SHIELDS == <<[name |-> "Parasol", quality |-> 0], [name |-> "Pie Plate", quality |-> 1]>>
ARMORS == <<[name |-> "Lace", quality |-> 1], [name |-> "Macrame", quality |-> 2]>>
OFFENSE_ATTRIBUTE == <<[name |-> "Polished", quality |-> 1]>>
OFFENSE_QUIRK == <<[name |-> "Dull", quality |-> -2]>>
DEFENSE_ATTRIBUTE == <<[name |-> "Studded", quality |-> 1]>>
DEFENSE_QUIRK == <<[name |-> "Holey", quality |-> -1]>>

\* str::to_lowercase on the words of the catalogue.
to_lowercase(word) ==
    CASE word = "Rat" -> "rat"
      [] word = "Goblin" -> "goblin"
      [] word = "Ogre" -> "ogre"
      [] word = "Tail" -> "tail"
      [] word = "Talon" -> "talon"
      [] OTHER -> word

(***************************************************************************)
(* rand::Rand.  below(n) is the set of the outcomes of rng.below(n) that   *)
(* the model enumerates: 0 .. MaxDraw-1 and n-1.  below(0) is empty: the   *)
(* generator panics on an empty range.                                     *)
(***************************************************************************)
MaxDraw == 5

below(num) == {k \in 0..(num - 1) : k < MaxDraw \/ k = num - 1}

below_low(num) == {Min(a, b) : a \in below(num), b \in below(num)}

\* odds(chance, quantum): the outcomes of below(quantum) < chance.
odds(chance, quantum) == {k < chance : k \in below(quantum)}

choice(slice) == {slice[k + 1] : k \in below(Len(slice))}

choice_low(slice) == {slice[k + 1] : k \in below_low(Len(slice))}

(***************************************************************************)
(* format::Roman, lingo                                                    *)
(***************************************************************************)
to_char(d) ==
    CASE d = 1000 -> "M" [] d = 500 -> "D" [] d = 100 -> "C" [] d = 50 -> "L"
      [] d = 10 -> "X" [] d = 5 -> "V" [] d = 1 -> "I"

ROMAN_PAIRS == <<<<100, 1000>>, <<100, 500>>, <<10, 100>>, <<10, 50>>, <<1, 10>>, <<1, 5>>>>

RECURSIVE Repeat(_, _)
Repeat(c, n) == IF n <= 0 THEN <<>> ELSE <<c>> \o Repeat(c, n - 1)

\* from_i32 without the subtractive pairs.
RECURSIVE from_i32_loop_additive(_, _)
from_i32_loop_additive(st, i) ==
    IF i > Len(ROMAN_PAIRS) THEN st
    ELSE LET v == ROMAN_PAIRS[i][2]
             times == st.number \div v
         IN  from_i32_loop_additive([number |-> st.number - times * v,
                                     numerals |-> st.numerals \o Repeat(to_char(v), times)],
                                    i + 1)

\* The body of the for loop of Roman::from_i32 from pair i on; st = [number, numerals].
RECURSIVE from_i32_loop(_, _)
from_i32_loop(st, i) ==
    IF i > Len(ROMAN_PAIRS) THEN st
    ELSE LET k == ROMAN_PAIRS[i][1]
             v == ROMAN_PAIRS[i][2]
             times == IF st.number >= v THEN st.number \div v ELSE 0
             n1 == st.number - times * v
             s1 == st.numerals \o Repeat(to_char(v), times)
             diff == v - k
         IN  IF n1 >= diff
             THEN from_i32_loop([number |-> n1 - diff,
                                 numerals |-> s1 \o <<to_char(k), to_char(v)>>], i + 1)
             ELSE from_i32_loop([number |-> n1, numerals |-> s1], i + 1)

\* The numeral is the sequence of its characters.
Roman_from_i32(number) ==
    LET st == from_i32_loop([number |-> number, numerals |-> <<>>], 1)
    IN  st.numerals \o Repeat("I", st.number)

act_name(act) ==
    IF act = 0 THEN <<"Prologue">> ELSE <<"Act ">> \o Roman_from_i32(act)

\* `x as usize` followed by LIST.len().saturating_sub(x): a negative x wraps
\* to a value above LIST.len().
saturating_sub_as_usize(len, x) == IF x < 0 THEN 0 ELSE Max(len - x, 0)

\* prefix(list, m, subject): the adjective put before the subject, if any.
prefix(list, m) == IF m < 1 \/ m > Len(list) THEN <<>> ELSE <<list[m]>>

SICK_LIST == <<"dead", "comatose", "crippled", "sick", "undernourished">>
YOUNG_LIST == <<"fetal", "baby", "preadolescent", "teenage", "underage">>

sick(m) == prefix(SICK_LIST, saturating_sub_as_usize(Len(SICK_LIST), m))

young(m) == prefix(YOUNG_LIST, saturating_sub_as_usize(Len(YOUNG_LIST), m))

(***************************************************************************)
(* Task                                                                    *)
(***************************************************************************)
\* A description is its format string and what fills it: the subject (its
\* words), the lingo function applied to the subject and the quantity given
\* to it, and the adjectives put before the subject.
Describe(template, article, adjective, subject, qty) ==
    [template |-> template, article |-> article, adjective |-> adjective,
     subject |-> subject, qty |-> qty]

Text(template) == Describe(template, "", <<>>, <<>>, 0)
Format(template, subject) == Describe(template, "", <<>>, subject, 0)

NewTask(description, duration, kind) ==
    [description |-> description, duration |-> duration, kind |-> kind, monster |-> None]

Task_regular(description, duration) == NewTask(description, duration, "Regular")
Task_plot(description, duration) == NewTask(description, duration, "Plot")
Task_sell(description, duration) == NewTask(description, duration, "Sell")
Task_heading_to_market(description, duration) == NewTask(description, duration, "HeadingToMarket")
Task_heading_out(description, duration) == NewTask(description, duration, "HeadingOut")
Task_buy(description, duration) == NewTask(description, duration, "Buy")

\* usize::saturating_sub
saturating_sub(a, b) == IF a >= b THEN a - b ELSE 0

Abs(x) == IF x < 0 THEN -x ELSE x

\* The loop of unnamed_monster: the monsters that can be held after `attempts`
\* more draws, when one of `held` is held now.
RECURSIVE unnamed_monster_loop(_, _, _)
unnamed_monster_loop(held, level, attempts) ==
    IF attempts = 0 THEN held
    ELSE unnamed_monster_loop(
            {IF saturating_sub(level, alt.level) < saturating_sub(level, m.level)
             THEN alt ELSE m : m \in held, alt \in choice(MONSTERS)},
            level, attempts - 1)

unnamed_monster(level, attempts) ==
    unnamed_monster_loop(choice(MONSTERS), level, attempts)

\* The loop of pick_equipment, likewise.
RECURSIVE pick_equipment_loop(_, _, _, _)
pick_equipment_loop(held, source, goal, attempts) ==
    IF attempts = 0 THEN held
    ELSE pick_equipment_loop(
            {IF Abs(goal - alt.quality) < Abs(goal - out.quality)
             THEN alt ELSE out : out \in held, alt \in choice(source)},
            source, goal, attempts - 1)

pick_equipment(source, goal) == pick_equipment_loop(choice(source), source, goal, 5)

\* The level after the perturbation loop of Task::monster: each of the
\* player_level iterations adds -1, 0 or +1; the enumerated sums are those of
\* size at most 1 and the two extremes.
PerturbedLevels(player_level) ==
    {Max(player_level + d, 1) :
        d \in {e \in (-player_level)..player_level : Abs(e) <= 1 \/ Abs(e) = player_level}}

\* The encounters Task::monster chooses among: [result, task_level, monster, is_definite].
Encounters(level, quest_monster) ==
    LET npc == IF TRUE \in odds(1, 25)
               THEN {[result |-> <<"passing", race, class>>, task_level |-> level,
                      monster |-> None, is_definite |-> FALSE] :
                        race \in choice(RACES), class \in choice(CLASSES)}
                    \cup
                    {[result |-> <<title, "<name>", "the", race>>, task_level |-> level,
                      monster |-> None, is_definite |-> TRUE] :
                        race \in choice(RACES), title \in choice_low(TITLES)}
               ELSE {}
        quest == IF IsSome(quest_monster) /\ TRUE \in odds(1, 4)
                 THEN {[result |-> <<Unwrap(quest_monster).name>>,
                        task_level |-> Unwrap(quest_monster).level,
                        monster |-> quest_monster, is_definite |-> FALSE]}
                 ELSE {}
        unnamed == {[result |-> <<m.name>>, task_level |-> m.level,
                     monster |-> Some(m), is_definite |-> FALSE] :
                       m \in unnamed_monster(level, 5)}
    IN  npc \cup quest \cup unnamed

\* The swarm: [qty, level] after the division of the level by the quantity.
Swarms(level, task_level) ==
    IF level - task_level > 10
    THEN {LET qty == Max((level + r) \div Max(task_level, 1), 1)
          IN  [qty |-> qty, level |-> level \div qty] : r \in below(Max(task_level, 1))}
    ELSE {[qty |-> 1, level |-> level]}

\* The adjectives the match of Task::monster can put before the result for
\* the gap level - task_level.  The arm that tests gap >= -10 takes every
\* gap >= 0, so the arms after it are never taken.
Adjectives(level, task_level) ==
    LET gap == level - task_level
    IN  IF gap <= -10 THEN {<<"imaginary">>}
        ELSE IF gap < -5
        THEN {LET i == 5 - b IN sick(i) \o young(task_level - level - i) :
                 b \in below(10 + gap + 1)}
        ELSE IF gap < 0
        THEN (IF TRUE \in odds(1, 2) THEN {sick(gap)} ELSE {})
             \cup (IF FALSE \in odds(1, 2) THEN {young(gap)} ELSE {})
        ELSE {<<"unreal">>}

Task_monster_duration(level, player_level) == (2 * 3 * level * 1000) \div player_level

Task_monster(player_level, quest_monster) ==
    UNION {UNION {UNION {
        {[description |->
              Describe("Attacking {}", IF e.is_definite THEN "" ELSE "indefinite",
                       adj, e.result, sw.qty),
          duration |-> Task_monster_duration(sw.level * sw.qty, player_level),
          kind |-> "Kill",
          monster |-> e.monster] : adj \in Adjectives(sw.level, e.task_level)}
        : sw \in Swarms(level, e.task_level)}
        : e \in Encounters(level, quest_monster)}
        : level \in PerturbedLevels(player_level)}

(***************************************************************************)
(* A run of an operation that draws from the generator: the Player, the    *)
(* panic that stopped the run (if any), and a log of what the run did.     *)
(***************************************************************************)
DequeueFuel == 3    \* iterations of the dequeue loop that one call is followed through

NoLog ==
    [branch |-> "none",     \* the branch tick took
     completed |-> <<>>,    \* the tasks whose completion effect dequeue dispatched
     assigned |-> <<>>,     \* the tasks dequeue made current, in order
     enqueued |-> <<>>,     \* the tasks the cinematic enqueued, in order
     beats |-> None,        \* the number of combat beats of the nemesis cinematic
     unfinished |-> FALSE]  \* the dequeue loop was still running when the fuel ran out

Run(p) == [player |-> p, panic |-> None, log |-> NoLog]

Panic(w, message) == [w EXCEPT !.panic = Some(message)]

\* Continue every run of S that has not panicked with F.
Bind(S, F(_)) == UNION {IF w.panic = None THEN F(w) ELSE {w} : w \in S}

(***************************************************************************)
(* Player: the operations that draw                                        *)
(***************************************************************************)
interesting_item ==
    {<<attribute, special>> : attribute \in choice(ITEM_ATTRIBUTES), special \in choice(SPECIALS)}

special_item ==
    {item \o <<"of", preposition>> :
        item \in interesting_item, preposition \in choice(ITEM_PREPOSITION)}

boring_item == {<<item>> : item \in choice(BORING_ITEMS)}

impressive_npc ==
    {<<title, "of the", race>> : title \in choice(IMPRESSIVE_TITLES), race \in choice(RACES)}
    \cup {<<title, "of", "<name>">> : title \in choice(IMPRESSIVE_TITLES)}

named_monster(level) == {<<"<name>", "the", m.name>> : m \in unnamed_monster(level, 4)}

Player_choose_item(w) ==
    {[w EXCEPT !.player.inventory = Inventory_add_item(@, item, 1)] : item \in special_item}

Player_choose_spell(w) ==
    LET pick == Stats_index(w.player.stats, "Wisdom") + w.player.level
    IN  {[w EXCEPT !.player.spell_book =
                      SpellBook_add(@, SPELLS[Min(k, Len(SPELLS) - 1) + 1], 1)] :
            k \in below_low(pick)}

SumSquares(stats) ==
    LET RECURSIVE Sum(_)
        Sum(i) == IF i > Len(stats) THEN 0 ELSE stats[i].value * stats[i].value + Sum(i + 1)
    IN  Sum(1)

\* The find_map of choose_stat: the first stat whose square exceeds what is left of t.
WeightedStat(stats, t) ==
    LET RECURSIVE Find(_, _)
        Find(i, left) ==
            IF left >= stats[i].value * stats[i].value
            THEN Find(i + 1, left - stats[i].value * stats[i].value)
            ELSE stats[i].stat
    IN  Find(1, t)

Player_choose_stat(w) ==
    LET stats == w.player.stats
        total == SumSquares(stats)
        Gain(stat) ==
            LET grown == Stats_increment(stats, stat, 1)
            IN  IF stat = "Strength"
                THEN [w EXCEPT !.player.stats = grown,
                               !.player.inventory =
                                   Inventory_set_capacity(@, 10 + Stats_index(grown, "Strength"))]
                ELSE [w EXCEPT !.player.stats = grown]
    IN  (IF TRUE \in odds(1, 2) THEN {Gain(stat) : stat \in choice(ALL_STATS)} ELSE {})
        \cup
        (IF FALSE \in odds(1, 2)
         THEN IF total = 0
              THEN {Panic(w, "cannot sample empty range")}
              ELSE {Gain(WeightedStat(stats, t)) : t \in below(total)}
         ELSE {})

\* The modifier loop of choose_equipment: the [name, positive] it can end with.
RECURSIVE ModifiedNames(_, _, _, _)
ModifiedNames(name, positive, count, pool) ==
    IF count < 2 /\ positive > 0
    THEN UNION {
            IF <<modifier.name>> = name \/ Abs(positive) < Abs(modifier.quality)
            THEN {[name |-> name, positive |-> positive]}
            ELSE ModifiedNames(<<modifier.name>> \o name, positive - modifier.quality,
                               count + 1, pool)
            : modifier \in choice(pool)}
    ELSE {[name |-> name, positive |-> positive]}

\* The table, the attributes and the quirks that go with a slot.
EquipmentTables(slot) ==
    IF slot = "Weapon"
    THEN [stuff |-> WEAPONS, better |-> OFFENSE_ATTRIBUTE, worse |-> OFFENSE_QUIRK]
    ELSE IF slot = "Shield"
    THEN [stuff |-> SHIELDS, better |-> DEFENSE_ATTRIBUTE, worse |-> DEFENSE_QUIRK]
    ELSE [stuff |-> ARMORS, better |-> DEFENSE_ATTRIBUTE, worse |-> DEFENSE_QUIRK]

\* The slot written is drawn again, independently of the slot that chose the table.
Player_choose_equipment(w) ==
    UNION {UNION {
        LET positive == w.player.level - equipment.quality
            pool == IF positive < 0 THEN tables.worse ELSE tables.better
        IN  {[w EXCEPT !.player.equipment =
                          Equipment_add(@, slot, ItemName(n.positive, n.name))] :
                n \in ModifiedNames(<<equipment.name>>, positive, 0, pool),
                slot \in choice(EQUIPMENT_SLOTS)}
        : equipment \in pick_equipment(tables.stuff, w.player.level)}
        : tables \in {EquipmentTables(first) : first \in choice(EQUIPMENT_SLOTS)}}

LevelRaise(w) ==
    LET level == w.player.level + 1
        hp == Stats_index(w.player.stats, "Condition") \div 3 + 1
        mp == Stats_index(w.player.stats, "Intelligence") \div 3 + 1
    IN  {[w EXCEPT !.player.level = level,
                   !.player.stats =
                       Stats_increment(Stats_increment(@, "HpMax", hp + a),
                                       "MpMax", mp + b)] :
            a \in below(4), b \in below(4)}

\* LevelReset with the meter sized for the level before the increment.
LevelReset_old_level(x) ==
    {[x EXCEPT !.player.exp_bar = Bar_reset(@, level_up_time(x.player.level - 1))]}

LevelReset(x) == {[x EXCEPT !.player.exp_bar = Bar_reset(@, level_up_time(x.player.level))]}

Player_level_up(w) ==
    Bind(Bind(Bind(Bind(LevelRaise(w), Player_choose_stat), Player_choose_stat),
              Player_choose_spell), LevelReset)

(***************************************************************************)
(* Simulation                                                              *)
(***************************************************************************)
FLAVOR_TASKS ==
    <<[title |-> "Experiencing an enigmatic and foreboding night vision", duration |-> 10000],
      [title |-> "Much is revealed about the wise old man you'd underestimated",
       duration |-> 6000],
      [title |-> "A shocking series of events leaves you alone and bewildered, but resolute",
       duration |-> 6000],
      [title |-> "Drawing upon an unrealized reserve of determination, you set out on a long and dangerous journey",
       duration |-> 4000]>>

SetTask(w, task) ==
    [w EXCEPT !.player = Player_set_task(@, task),
              !.log.assigned = Append(@, task)]

\* complete_act without the test of the new act.
Simulation_complete_act_always_reward(w) ==
    LET act == w.player.quest_book.act + 1
        max == 60 * 60 * (1 + 5 * act) * 1000
        entered == [w EXCEPT !.player.quest_book =
                        [QuestBook_next_act(@) EXCEPT !.plot = Bar_reset(@, max)]]
    IN  Bind(Player_choose_item(entered), Player_choose_equipment)

Simulation_complete_act(w) ==
    LET act == w.player.quest_book.act + 1
        max == 60 * 60 * (1 + 5 * act) * 1000
        entered == [w EXCEPT !.player.quest_book =
                        [QuestBook_next_act(@) EXCEPT !.plot = Bar_reset(@, max)]]
    IN  IF entered.player.quest_book.act > 1
        THEN Bind(Player_choose_item(entered), Player_choose_equipment)
        ELSE {entered}

\* The captions complete_quest chooses among, each with the monster it tracks.
QuestCaptions(level) ==
    (IF 0 \in below(5)
     THEN {[caption |-> Describe("Exterminate {}", "definite", <<>>, <<m.name>>, 2),
            monster |-> Some(m)] : m \in unnamed_monster(level, 3)}
     ELSE {})
    \cup (IF 1 \in below(5)
          THEN {[caption |-> Describe("Seek {}", "definite", <<>>, item, 1),
                 monster |-> None] : item \in interesting_item}
          ELSE {})
    \cup (IF 2 \in below(5)
          THEN {[caption |-> Format("Deliver this {}", item), monster |-> None] :
                   item \in boring_item}
          ELSE {})
    \cup (IF 3 \in below(5)
          THEN {[caption |-> Describe("Fetch me {}", "indefinite", <<>>, item, 1),
                 monster |-> None] : item \in boring_item}
          ELSE {})
    \cup (IF 4 \in below(5)
          THEN {[caption |-> Describe("Placate {}", "definite", <<>>, <<m.name>>, 2),
                 monster |-> None] : m \in unnamed_monster(level, 1)}
          ELSE {})

QuestReset(w) ==
    {[w EXCEPT !.player.quest_book.quest = Bar_reset(@, (50 + b) * 1000)] :
        b \in below_low(1000)}

\* QuestReward without the test that a quest existed.
QuestReward_always(x) ==
    (IF 0 \in below(4) THEN Player_choose_item(x) ELSE {})
    \cup (IF 1 \in below(4) THEN Player_choose_spell(x) ELSE {})
    \cup (IF 2 \in below(4) THEN Player_choose_equipment(x) ELSE {})
    \cup (IF 3 \in below(4) THEN Player_choose_stat(x) ELSE {})

QuestReward(x) ==
    IF IsSome(QuestBook_current_quest(x.player.quest_book))
    THEN (IF 0 \in below(4) THEN Player_choose_item(x) ELSE {})
         \cup (IF 1 \in below(4) THEN Player_choose_spell(x) ELSE {})
         \cup (IF 2 \in below(4) THEN Player_choose_equipment(x) ELSE {})
         \cup (IF 3 \in below(4) THEN Player_choose_stat(x) ELSE {})
    ELSE {x}

QuestCaption(x) ==
    {[x EXCEPT !.player.quest_book =
          QuestBook_add_quest([@ EXCEPT !.monster = q.monster], q.caption)] :
        q \in QuestCaptions(x.player.level)}

Simulation_complete_quest(w) == Bind(Bind(QuestReset(w), QuestReward), QuestCaption)

\* The completion effect of the current task: the runs after the match of
\* dequeue, each with whether the arm ended in `break`.
CompletionEffect(w) ==
    LET p == w.player
        task == Unwrap(p.task)
        Go(S) == {[run |-> x, break |-> FALSE] : x \in S}
    IN  IF task.kind = "Kill" /\ IsSome(task.monster) /\ Unwrap(task.monster).item = None
        THEN Go(Player_choose_item(w))
        ELSE IF task.kind = "Kill" /\ IsSome(task.monster)
        THEN LET m == Unwrap(task.monster)
                 item == <<to_lowercase(m.name), to_lowercase(Unwrap(m.item))>>
             IN  Go({[w EXCEPT !.player.inventory = Inventory_add_item(@, item, 1)]})
        ELSE IF task.kind = "Buy"
        THEN Go(Player_choose_equipment(
                    [w EXCEPT !.player.inventory =
                                  Inventory_add_gold(@, -Player_equipment_price(p))]))
        ELSE IF task.kind \in {"HeadingToMarket", "Sell"} /\ ~Inventory_is_empty(p.inventory)
        THEN LET sold ==
                    IF task.kind /= "Sell" THEN {w}
                    ELSE IF Len(p.inventory.items) = 0
                    THEN {Panic(w, "index out of bounds")}
                    ELSE LET item == p.inventory.items[1]
                             amount == item.quantity * p.level
                             amounts ==
                                 IF \E i \in 2..(Len(item.name) - 1) : item.name[i] = "of"
                                 THEN {amount * (1 + a * (1 + b)) :
                                          a \in below_low(10), b \in below_low(p.level)}
                                 ELSE {amount}
                         IN  {[w EXCEPT !.player.inventory =
                                            Inventory_add_gold(Inventory_pop(@), g)] :
                                 g \in amounts}
             IN  {IF x.panic /= None \/ Inventory_is_empty(x.player.inventory)
                  THEN [run |-> x, break |-> FALSE]
                  ELSE IF Len(x.player.inventory.items) = 0
                  THEN [run |-> Panic(x, "index out of bounds"), break |-> FALSE]
                  ELSE LET item == x.player.inventory.items[Len(x.player.inventory.items)]
                       IN  [run |-> SetTask(x, Task_sell(
                                        Describe("Selling {}", "indefinite", <<>>,
                                                 item.name, item.quantity), 1000)),
                            break |-> TRUE] : x \in sold}
        ELSE IF task.kind = "Plot"
        THEN Go(Simulation_complete_act(w))
        ELSE Go({w})

\* NextTask with pop_front in place of pop_back.
NextTask_pop_front(w, old) ==
    LET p == w.player
    IN  IF Bar_is_done(p.inventory.encumbrance)
        THEN {SetTask(w, Task_heading_to_market(Text("Heading to market to sell loot"), 4000))}
        ELSE IF p.queue /= <<>>
        THEN {SetTask([w EXCEPT !.player.queue = Tail(@)], Head(p.queue))}
        ELSE IF old.kind \notin {"Kill", "HeadingOut"}
        THEN IF p.inventory.gold > Player_equipment_price(p)
             THEN {SetTask(w, Task_buy(Text("Negotiating purchase of better equipment"), 5000))}
             ELSE {SetTask(w, Task_heading_out(Text("Heading out into the world"), 4000))}
        ELSE {SetTask(w, task) : task \in Task_monster(p.level, p.quest_book.monster)}

\* NextTask with the queue consulted before the encumbrance meter.
NextTask_queue_first(w, old) ==
    LET p == w.player
    IN  IF p.queue /= <<>>
        THEN {SetTask([w EXCEPT !.player.queue = SubSeq(@, 1, Len(@) - 1)],
                      p.queue[Len(p.queue)])}
        ELSE IF Bar_is_done(p.inventory.encumbrance)
        THEN {SetTask(w, Task_heading_to_market(Text("Heading to market to sell loot"), 4000))}
        ELSE IF old.kind \notin {"Kill", "HeadingOut"}
        THEN IF p.inventory.gold > Player_equipment_price(p)
             THEN {SetTask(w, Task_buy(Text("Negotiating purchase of better equipment"), 5000))}
             ELSE {SetTask(w, Task_heading_out(Text("Heading out into the world"), 4000))}
        ELSE {SetTask(w, task) : task \in Task_monster(p.level, p.quest_book.monster)}

\* NextTask without the Buy / HeadingOut step between a task that was no
\* fight and the next fight.
NextTask_straight_to_fight(w, old) ==
    LET p == w.player
    IN  IF Bar_is_done(p.inventory.encumbrance)
        THEN {SetTask(w, Task_heading_to_market(Text("Heading to market to sell loot"), 4000))}
        ELSE IF p.queue /= <<>>
        THEN {SetTask([w EXCEPT !.player.queue = SubSeq(@, 1, Len(@) - 1)],
                      p.queue[Len(p.queue)])}
        ELSE {SetTask(w, task) : task \in Task_monster(p.level, p.quest_book.monster)}

\* The task dequeue assigns after the effect of the task `old`.
NextTask(w, old) ==
    LET p == w.player
    IN  IF Bar_is_done(p.inventory.encumbrance)
        THEN {SetTask(w, Task_heading_to_market(Text("Heading to market to sell loot"), 4000))}
        ELSE IF p.queue /= <<>>
        THEN {SetTask([w EXCEPT !.player.queue = SubSeq(@, 1, Len(@) - 1)],
                      p.queue[Len(p.queue)])}
        ELSE IF old.kind \notin {"Kill", "HeadingOut"}
        THEN IF p.inventory.gold > Player_equipment_price(p)
             THEN {SetTask(w, Task_buy(Text("Negotiating purchase of better equipment"), 5000))}
             ELSE {SetTask(w, Task_heading_out(Text("Heading out into the world"), 4000))}
        ELSE {SetTask(w, task) : task \in Task_monster(p.level, p.quest_book.monster)}

\* dequeue with `if let Some(task)` in place of `while task_bar.is_done()`:
\* the current task is completed whether or not its meter is done.
dequeue_loop_unguarded(w, fuel) ==
    IF w.player.task = None THEN {w}
    ELSE LET old == Unwrap(w.player.task)
             seen == [w EXCEPT !.log.completed = Append(@, old)]
         IN  UNION {IF e.run.panic /= None \/ e.break
                    THEN {e.run}
                    ELSE NextTask(e.run, old)
                    : e \in CompletionEffect(seen)}

\* The while loop of dequeue, followed through `fuel` iterations.
RECURSIVE dequeue_loop(_, _)
dequeue_loop(w, fuel) ==
    IF ~Bar_is_done(w.player.task_bar) THEN {w}
    ELSE IF w.player.task = None THEN {Panic(w, "a player should always be on a task")}
    ELSE IF fuel = 0 THEN {[w EXCEPT !.log.unfinished = TRUE]}
    ELSE LET old == Unwrap(w.player.task)
             seen == [w EXCEPT !.log.completed = Append(@, old)]
         IN  UNION {IF e.run.panic /= None \/ e.break
                    THEN {e.run}
                    ELSE Bind(NextTask(e.run, old), LAMBDA x : dequeue_loop(x, fuel - 1))
                    : e \in CompletionEffect(seen)}

Simulation_dequeue(w) == dequeue_loop(w, DequeueFuel)

\* Queue::enqueue of the cinematic.
Enqueue(w, task) ==
    Simulation_dequeue([w EXCEPT !.player.queue = Append(@, task),
                                 !.log.enqueued = Append(@, task)])

RECURSIVE EnqueueAll(_, _)
EnqueueAll(S, tasks) ==
    IF tasks = <<>> THEN S
    ELSE EnqueueAll(Bind(S, LAMBDA x : Enqueue(x, Head(tasks))), Tail(tasks))

\* The beats of the nemesis fight from iteration i on, with s as it stands:
\* the sequences of s % 3 the loop `for i in 1..` can go through.
RECURSIVE CombatBeats(_, _, _)
CombatBeats(s, i, act) ==
    (IF \E r \in below(1 + act + 1) : i > r THEN {<<>>} ELSE {})
    \cup
    (IF \E r \in below(1 + act + 1) : ~(i > r)
     THEN UNION {{<<(s + 1 + d) % 3>> \o rest : rest \in CombatBeats(s + 1 + d, i + 1, act)} :
                    d \in below(2)}
     ELSE {})

NemesisBeat(nemesis, k) ==
    IF k = 0 THEN Task_regular(Format("Locked in grim combat with {nemesis}", nemesis), 2000)
    ELSE IF k = 1 THEN Task_regular(Format("{nemesis} seems to have the upper hand", nemesis), 1000)
    ELSE Task_regular(Format("You seem to gain the advantage over {nemesis}", nemesis), 2000)

\* The scripts the cinematic chooses among: the tasks enqueued before the Plot task.
CinematicScripts(w) ==
    (IF 0 \in below(3)
     THEN {<<Task_regular(Text("Exhausted, you arrive at a friendly oasis in a hostile land"), 1000),
             Task_regular(Text("You greet old friends and meet new allies"), 1000),
             Task_regular(Text("You are privy to a council of powerful do-gooders"), 1000),
             Task_regular(Text("There is much to be done, you are chosen!"), 1000)>>}
     ELSE {})
    \cup
    (IF 1 \in below(3)
     THEN {<<Task_regular(Text("Your quarry is in sigh, but a mightly enemy bars your path!"), 1000),
             Task_regular(Format("A desperate struggle commences with {nemesis}", nemesis), 4000)>>
           \o [k \in 1..Len(beats) |-> NemesisBeat(nemesis, beats[k])]
           \o <<Task_regular(Format("Victory! {nemesis} is slain! Exhauted, you lose consciousness",
                                    nemesis), 3000),
                Task_regular(Text("You awake in a friendly place, but the road awaits"), 2000)>> :
              nemesis \in named_monster(w.player.level + 3),
              beats \in UNION {CombatBeats(s, 1, w.player.quest_book.act) : s \in below(3)}}
     ELSE {})
    \cup
    (IF 2 \in below(3)
     THEN {<<Task_regular(Format("Oh sweet relief! You've reached the protection of the good {nemesis}",
                                 nemesis), 2000),
             Task_regular(Format("There is rejoicing, and an unnerving encounter with {nemesis} in private",
                                 nemesis), 3000),
             Task_regular(Format("You forgot your {} and go back to get it", item), 2000),
             Task_regular(Text("What's this!? Your overhead something shocking!"), 2000),
             Task_regular(Format("Could {nemesis} be a dirty double-dealer?", nemesis), 2000),
             Task_regular(Text("Who can possibly be trusted with this new?! ... Oh yes, of course."),
                          3000)>> :
              nemesis \in impressive_npc, item \in boring_item}
     ELSE {})

IsCombatBeat(task) ==
    task.description.template \in
        {"Locked in grim combat with {nemesis}", "{nemesis} seems to have the upper hand",
         "You seem to gain the advantage over {nemesis}"}

\* The cinematic with a second Plot task behind the first.
Simulation_cinematic_two_plots(w) ==
    LET Play(script) ==
            LET beats == Len(SelectSeq(script, IsCombatBeat))
                nemesis == \E k \in 1..Len(script) :
                              script[k].description.template =
                                  "A desperate struggle commences with {nemesis}"
                start == IF nemesis THEN [w EXCEPT !.log.beats = Some(beats)] ELSE w
            IN  EnqueueAll({start}, script)
        Plot(x) ==
            Enqueue(x, Task_plot(Format("Loading {}", act_name(x.player.quest_book.act + 1)),
                                 1000))
    IN  Bind(Bind(UNION {Play(script) : script \in CinematicScripts(w)}, Plot), Plot)

Simulation_cinematic(w) ==
    LET Play(script) ==
            LET beats == Len(SelectSeq(script, IsCombatBeat))
                nemesis == \E k \in 1..Len(script) :
                              script[k].description.template =
                                  "A desperate struggle commences with {nemesis}"
                start == IF nemesis THEN [w EXCEPT !.log.beats = Some(beats)] ELSE w
            IN  EnqueueAll({start}, script)
        Plot(x) ==
            Enqueue(x, Task_plot(Format("Loading {}", act_name(x.player.quest_book.act + 1)),
                                 1000))
    IN  Bind(UNION {Play(script) : script \in CinematicScripts(w)}, Plot)

\* The three steps of a tick that processes a completed fight: experience,
\* quest progress, plot progress.
TickGain(x) ==
    IF Bar_is_done(x.player.exp_bar)
    THEN Player_level_up(x)
    ELSE {[x EXCEPT !.player.exp_bar = Bar_increment(@, x.player.task_bar.max)]}

TickQuest(x) ==
    IF x.player.quest_book.act >= 1
    THEN IF Bar_is_done(x.player.quest_book.quest)
            \/ QuestBook_current_quest(x.player.quest_book) = None
         THEN Simulation_complete_quest(x)
         ELSE {[x EXCEPT !.player.quest_book.quest =
                             Bar_increment(@, x.player.task_bar.max)]}
    ELSE {x}

TickPlot(x) ==
    IF Bar_is_done(x.player.quest_book.plot)
    THEN Simulation_cinematic(x)
    ELSE {[x EXCEPT !.player.quest_book.plot =
                        Bar_increment(@, x.player.task_bar.max)]}

\* TickBootstrap without the Plot task behind the flavor tasks.
TickBootstrap_no_plot(w) ==
    LET loading == Player_set_task(w.player, Task_regular(Text("Loading"), 2000))
        flavor == [i \in 1..Len(FLAVOR_TASKS) |->
                      Task_regular(Text(FLAVOR_TASKS[i].title), FLAVOR_TASKS[i].duration)]
    IN  [w EXCEPT !.player =
              [loading EXCEPT !.queue = loading.queue \o flavor,
                              !.quest_book.plot = Bar_reset(@, 28000)],
                  !.log.branch = "bootstrap"]

\* The first tick: bootstrap.
TickBootstrap(w) ==
    LET loading == Player_set_task(w.player, Task_regular(Text("Loading"), 2000))
        flavor == [i \in 1..Len(FLAVOR_TASKS) |->
                      Task_regular(Text(FLAVOR_TASKS[i].title), FLAVOR_TASKS[i].duration)]
        plot == Task_plot(Format("Loading {}", act_name(1)), 2000)
    IN  [w EXCEPT !.player =
              [loading EXCEPT !.queue = Append(loading.queue \o flavor, plot),
                              !.quest_book.plot = Bar_reset(@, 28000)],
                  !.log.branch = "bootstrap"]

\* TickSteps without the test that the completed task is a Kill.
TickSteps_always_gain(p, dt) ==
    LET w == Run([p EXCEPT !.elapsed = @ + dt])
    IN  IF p.task = None
        THEN {TickBootstrap(w)}
        ELSE IF ~Bar_is_done(p.task_bar)
        THEN {[w EXCEPT !.player.task_bar = Bar_increment(@, dt), !.log.branch = "advance"]}
        ELSE Bind(Bind(Bind({[w EXCEPT !.log.branch = "gain"]}, TickGain), TickQuest),
                  TickPlot)

\* The runs of tick up to its last statement; log.branch tells the branch
\* taken.  The first tick and a tick that advances the task return early,
\* the other two branches end in the call of dequeue.
TickSteps(p, dt) ==
    LET w == Run([p EXCEPT !.elapsed = @ + dt])
    IN  IF p.task = None
        THEN {TickBootstrap(w)}
        ELSE IF ~Bar_is_done(p.task_bar)
        THEN {[w EXCEPT !.player.task_bar = Bar_increment(@, dt), !.log.branch = "advance"]}
        ELSE IF Unwrap(p.task).kind /= "Kill"
        THEN {[w EXCEPT !.log.branch = "complete"]}
        ELSE Bind(Bind(Bind({[w EXCEPT !.log.branch = "gain"]}, TickGain), TickQuest),
                  TickPlot)

\* The last statement of tick on the run x.
TickEnd(x) ==
    IF x.log.branch \in {"complete", "gain"} /\ x.panic = None
    THEN Simulation_dequeue(x)
    ELSE {x}

Simulation_tick(p, dt) == UNION {TickEnd(x) : x \in TickSteps(p, dt)}

(***************************************************************************)
(* The values of the variables a specification does not use.               *)
(***************************************************************************)
NoCall == [op |-> "none"]

\* The Plot tasks among the tasks a call completed, and the Plot tasks
\* completed over the whole run up to and including the last call.
PlotCount(completed) ==
    Cardinality({i \in 1..Len(completed) : completed[i].kind = "Plot"})

PlotsCompleted(c) == IF "plots" \in DOMAIN c THEN c.plots ELSE 0
IdlePlayer == Player_new(Stats_new(<<>>))
IdleBar == Bar_with_max(1000)

(***************************************************************************)
(* Spec: a character is rolled and created, and the simulation ticks.      *)
(***************************************************************************)
MaxElapsedSeconds == 66

\* elapsed wall-clock time x time_scale of a tick, in milliseconds
ElapsedValues == {2000, 12000}

Init ==
    /\ \E d \in RollDraws :
         /\ builder = StatsBuilder_roll(StatsBuilder_default, d)
         /\ player = Player_new(RolledStats(d))
    /\ call = NoCall
    /\ bar = IdleBar
    /\ panic = None

\* A tick whose elapsed time is one of `steps` and that ends no later than
\* `limit` on the cumulative clock.
TickWith(steps, limit) ==
    /\ panic = None
    /\ \E dt \in steps :
         /\ player.elapsed + dt <= limit
         /\ \E x \in TickSteps(player, dt) : \E w \in TickEnd(x) :
              /\ player' = w.player
              /\ panic' = w.panic
              /\ call' = [op |-> "Simulation::tick", dt |-> dt, old |-> player, log |-> w.log,
                          plots |-> PlotsCompleted(call) + PlotCount(w.log.completed)]
    /\ UNCHANGED <<builder, bar>>

TickUntil(limit) == TickWith(ElapsedValues, limit)

Tick == TickUntil(MaxElapsedSeconds * 1000)

Next == Tick

Spec == Init /\ [][Next]_vars

(***************************************************************************)
(* SpecBar: a Bar in any state, under increment, is_done and reset.        *)
(***************************************************************************)
BarValues == 0..MaxBarValue

InitBar ==
    /\ bar \in [pos : BarValues, max : BarValues]
    /\ call = NoCall
    /\ player = IdlePlayer
    /\ builder = StatsBuilder_default
    /\ panic = None

BarIncrement ==
    /\ \E x \in BarValues :
         /\ bar' = Bar_increment(bar, x)
         /\ call' = [op |-> "Bar::increment", x |-> x, old |-> bar]
    /\ UNCHANGED <<player, builder, panic>>

BarIsDone ==
    /\ call' = [op |-> "Bar::is_done", ret |-> Bar_is_done(bar), old |-> bar]
    /\ UNCHANGED <<bar, player, builder, panic>>

BarReset ==
    /\ \E m \in BarValues :
         /\ bar' = Bar_reset(bar, m)
         /\ call' = [op |-> "Bar::reset", max |-> m, old |-> bar]
    /\ UNCHANGED <<player, builder, panic>>

NextBar == BarIncrement \/ BarIsDone \/ BarReset

SpecBar == InitBar /\ [][NextBar]_vars

(***************************************************************************)
(* SpecInventory: the Inventory of a Player under add_item and pop.        *)
(***************************************************************************)
ItemNames == {<<"Sword">>, <<"Shield">>, <<"Potion">>}
\* the capacities Player::new gives the inventory of a rolled character
Capacities == {10 + Stats_index(RolledStats(d), "Strength") : d \in RollDraws}
Quantities == 1..MaxQuantity

InitInventory ==
    /\ \E c \in Capacities :
         player = [IdlePlayer EXCEPT !.inventory = Inventory_new(c)]
    /\ call = NoCall
    /\ bar = IdleBar
    /\ builder = StatsBuilder_default
    /\ panic = None

AddItem ==
    /\ panic = None
    /\ SumQuantities(player.inventory.items) < MaxCarried
    /\ \E item \in ItemNames, quantity \in Quantities :
         /\ player' = [player EXCEPT
                          !.inventory = Inventory_add_item(player.inventory, item, quantity)]
         /\ call' = [op |-> "Inventory::add_item", item |-> item, quantity |-> quantity,
                     old |-> player.inventory]
    /\ UNCHANGED <<bar, builder, panic>>

Pop ==
    /\ panic = None
    /\ call' = [op |-> "Inventory::pop", old |-> player.inventory]
    /\ IF Inventory_is_empty(player.inventory)
       THEN /\ panic' = Some("inventory not empty")
            /\ UNCHANGED player
       ELSE /\ player' = [player EXCEPT !.inventory = Inventory_pop(player.inventory)]
            /\ UNCHANGED panic
    /\ UNCHANGED <<bar, builder>>

NextInventory == AddItem \/ Pop

SpecInventory == InitInventory /\ [][NextInventory]_vars

(***************************************************************************)
(* SpecQuestBook: the QuestBook of a Player under add_quest; the n-th      *)
(* caption added is the number n.                                          *)
(***************************************************************************)
InitQuestBook ==
    /\ player = IdlePlayer
    /\ call = [op |-> "QuestBook::new", n |-> 0]
    /\ bar = IdleBar
    /\ builder = StatsBuilder_default
    /\ panic = None

AddQuest ==
    /\ call.n < MAX_QUESTS + ExtraQuests
    /\ player' = [player EXCEPT
                     !.quest_book = QuestBook_add_quest(player.quest_book, call.n + 1)]
    /\ call' = [op |-> "QuestBook::add_quest", n |-> call.n + 1]
    /\ UNCHANGED <<bar, builder, panic>>

NextQuestBook == AddQuest

SpecQuestBook == InitQuestBook /\ [][NextQuestBook]_vars

(***************************************************************************)
(* SpecStatsBuilder: a StatsBuilder under roll and unroll.                 *)
(***************************************************************************)
InitStatsBuilder ==
    /\ builder = StatsBuilder_default
    /\ call = NoCall
    /\ player = IdlePlayer
    /\ bar = IdleBar
    /\ panic = None

Roll ==
    /\ panic = None
    /\ \E d \in RollDraws :
         /\ builder' = StatsBuilder_roll(builder, d)
         /\ call' = [op |-> "StatsBuilder::roll", ret |-> Some(RolledStats(d)), old |-> builder]
    /\ UNCHANGED <<player, bar, panic>>

Unroll ==
    /\ panic = None
    /\ builder' = StatsBuilder_unroll(builder)
    /\ IF builder' = <<>>
       THEN /\ panic' = Some("called Option::unwrap() on a None value")
            /\ call' = [op |-> "StatsBuilder::unroll", ret |-> None, old |-> builder]
       ELSE /\ call' = [op |-> "StatsBuilder::unroll",
                        ret |-> Some(builder'[Len(builder')]), old |-> builder]
            /\ UNCHANGED panic
    /\ UNCHANGED <<player, bar>>

NextStatsBuilder == Roll \/ Unroll

SpecStatsBuilder == InitStatsBuilder /\ [][NextStatsBuilder]_vars

(***************************************************************************)
(* SpecStats: Stats::best and Stats::best_prime on any Stats.              *)
(***************************************************************************)
\* a rolled stat is at least 3, and increments can raise any stat
StatValues == 3..(3 + MaxStatValue)

InitStats ==
    /\ \E given \in [Range(ALL_STATS) -> StatValues] :
         player = Player_new(Stats_new(given))
    /\ call = NoCall
    /\ bar = IdleBar
    /\ builder = StatsBuilder_default
    /\ panic = None

Best ==
    /\ call' = [op |-> "Stats::best", ret |-> Stats_best(player.stats)]
    /\ UNCHANGED <<player, bar, builder, panic>>

BestPrime ==
    /\ call' = [op |-> "Stats::best_prime", ret |-> Stats_best_prime(player.stats)]
    /\ UNCHANGED <<player, bar, builder, panic>>

NextStats == Best \/ BestPrime

SpecStats == InitStats /\ [][NextStats]_vars

(***************************************************************************)
(* SpecMonster: the last arm of dequeue, which synthesizes a fight with     *)
(* Task::monster for the Player's level and tracked quest monster and       *)
(* makes it the current task; `bar` is the Player's task meter.             *)
(***************************************************************************)
MonsterPlayerLevels == {1, 2, 12, 6001}
QuestMonsters == {None} \cup {Some(MONSTERS[i]) : i \in 1..Len(MONSTERS)}

InitMonster ==
    /\ bar = IdlePlayer.task_bar
    /\ call = NoCall
    /\ player = IdlePlayer
    /\ builder = StatsBuilder_default
    /\ panic = None

AssignMonster ==
    /\ \E player_level \in MonsterPlayerLevels, quest_monster \in QuestMonsters :
         \E task \in Task_monster(player_level, quest_monster) :
            /\ bar' = Bar_reset(bar, task.duration)
            /\ call' = [op |-> "Task::monster", player_level |-> player_level,
                        quest_monster |-> quest_monster, ret |-> task]
    /\ UNCHANGED <<player, builder, panic>>

NextMonster == AssignMonster

SpecMonster == InitMonster /\ [][NextMonster]_vars

(***************************************************************************)
(* Claims about the simulation.                                            *)
(***************************************************************************)

\* C1: the first tick on a fresh Player (no current task) makes the Regular
\* task "Loading" current with the task meter at pos 0 and max 2 s, appends
\* exactly five tasks to the queue (the four flavor tasks, then the Plot task
\* "Loading Act I" at the tail), resets the plot meter to pos 0 and max 28 s,
\* and does nothing else: level, experience meter, inventory, quest list and
\* act are unchanged, and no task is dequeued.
C1_FirstTick ==
    (call.op = "Simulation::tick" /\ call.old.task = None) =>
        LET old == call.old
            added == SubSeq(player.queue, Len(old.queue) + 1, Len(player.queue))
        IN  /\ player.task = Some([description |-> Text("Loading"), duration |-> 2000,
                                   kind |-> "Regular", monster |-> None])
            /\ player.task_bar = [pos |-> 0, max |-> 2000]
            /\ Len(player.queue) = Len(old.queue) + 5
            /\ SubSeq(player.queue, 1, Len(old.queue)) = old.queue
            /\ \A i \in 1..4 :
                 /\ added[i].kind = "Regular"
                 /\ added[i].description = Text(FLAVOR_TASKS[i].title)
                 /\ added[i].duration = FLAVOR_TASKS[i].duration
            /\ added[5].kind = "Plot"
            /\ added[5].description = Format("Loading {}", <<"Act ", "I">>)
            /\ player.quest_book.plot = [pos |-> 0, max |-> 28000]
            /\ player.level = old.level
            /\ player.exp_bar = old.exp_bar
            /\ player.inventory = old.inventory
            /\ player.quest_book.quests = old.quest_book.quests
            /\ player.quest_book.act = old.quest_book.act
            /\ call.log.completed = <<>> /\ call.log.assigned = <<>>
            /\ panic = None

\* The first tick of a freshly created character has been taken.
C1_Witness ==
    /\ call.op = "Simulation::tick"
    /\ call.old.task = None
    /\ call.old.queue = <<>>
    /\ player.task /= None
    /\ Len(player.queue) = 5

\* C2: every task the dequeue loop assigns has a nonzero duration, so that
\* after the assignment the task meter is not done and the loop exits; here
\* for the task the loop synthesizes with Task::monster.
C2_AssignedTaskRuns ==
    call.op = "Task::monster" => (call.ret.duration > 0 /\ ~Bar_is_done(bar))

\* C4: every progress meter of the Player (task, experience, quest, plot and
\* inventory encumbrance) has 0 <= pos <= max in every reachable state.
C4_MetersInRange ==
    \A b \in {player.task_bar, player.exp_bar, player.quest_book.quest,
               player.quest_book.plot, player.inventory.encumbrance} :
        0 <= b.pos /\ b.pos <= b.max

(***************************************************************************)
(* Claims about the ledgers.                                               *)
(***************************************************************************)

\* C5: for a meter with 0 <= pos <= max and any x >= 0, increment(x) sets pos
\* to min(old pos + x, max) and leaves max unchanged; is_done() is true exactly
\* when pos >= max; reset(m) sets pos to 0 and max to m whatever the state was.
C5_BarContract ==
    /\ (call.op = "Bar::increment" /\ 0 <= call.old.pos /\ call.old.pos <= call.old.max) =>
          /\ bar.max = call.old.max
          /\ bar.pos = IF call.old.pos + call.x <= call.old.max
                       THEN call.old.pos + call.x
                       ELSE call.old.max
    /\ call.op = "Bar::is_done" => (call.ret <=> ~(bar.pos < bar.max))
    /\ call.op = "Bar::reset" => (bar.pos = 0 /\ bar.max = call.max)

\* An increment of a well-formed meter that had to be clamped.
C5_Witness ==
    /\ call.op = "Bar::increment"
    /\ 0 < call.old.pos /\ call.old.pos < call.old.max
    /\ call.old.pos + call.x > call.old.max
    /\ bar.pos = call.old.max

\* C6: after every Inventory mutation (add_item of a new name, add_item of an
\* existing name, pop) the encumbrance meter's pos is the exact sum of the
\* quantities of all entries.
C6_EncumbranceIsSum ==
    call.op \in {"Inventory::add_item", "Inventory::pop"} =>
        player.inventory.encumbrance.pos = SumQuantities(player.inventory.items)

UniqueNames(items) ==
    \A i, j \in 1..Len(items) : items[i].name = items[j].name => i = j

\* C7: inventory entries are unique by name in every reachable state; add_item
\* of a name already present adds the quantity to that entry and leaves the
\* number and order of entries unchanged; add_item of a new name appends one
\* entry at the end.
C7_UniqueByName ==
    /\ UniqueNames(player.inventory.items)
    /\ call.op = "Inventory::add_item" =>
          LET old == call.old.items
              new == player.inventory.items
          IN  IF \E i \in 1..Len(old) : old[i].name = call.item
              THEN /\ Len(new) = Len(old)
                   /\ \A i \in 1..Len(old) :
                        /\ new[i].name = old[i].name
                        /\ new[i].quantity =
                             old[i].quantity +
                             (IF old[i].name = call.item THEN call.quantity ELSE 0)
              ELSE new = Append(old, [name |-> call.item, quantity |-> call.quantity])

\* add_item of a name that is already held, and not as the only entry.
C7_Witness ==
    /\ call.op = "Inventory::add_item"
    /\ Len(call.old.items) >= 2
    /\ call.old.items[1].name = call.item
    /\ Len(player.inventory.items) = Len(call.old.items)

\* C8: the QuestBook never holds more than 100 quests; when full, add_quest
\* evicts the oldest captions first and appends the new one at the end, so
\* after n adds the book holds exactly the last min(n, 100) captions in
\* insertion order.
C8_QuestBookBounded ==
    LET quests == player.quest_book.quests
        n == call.n
    IN  /\ Len(quests) <= 100
        /\ Len(quests) = Min(n, 100)
        /\ \A i \in 1..Len(quests) : quests[i] = n - Len(quests) + i

\* 105 adds: 100 captions held, the 5 oldest gone.
C8_Witness ==
    /\ call.op = "QuestBook::add_quest"
    /\ call.n = 105
    /\ Len(player.quest_book.quests) = 100
    /\ player.quest_book.quests[1] = 6
    /\ player.quest_book.quests[100] = 105

\* C9: after any roll or unroll call on a StatsBuilder the history length is
\* between 1 and 10, and unroll returns the most recent entry without failing.
C9_HistoryBounds ==
    call.op \in {"StatsBuilder::roll", "StatsBuilder::unroll"} =>
        /\ Len(builder) >= 1
        /\ Len(builder) <= 10
        /\ panic = None
        /\ call.ret = Some(builder[Len(builder)])

StatPos(stats, s) == CHOOSE i \in 1..Len(stats) : stats[i].stat = s

BestCandidates(stats, op) ==
    IF op = "Stats::best"
    THEN 1..Len(stats)
    ELSE {i \in 1..Len(stats) : stats[i].stat \in Range(PRIME_STATS)}

\* C10 as stated: best / best_prime return a stat of maximum value over all /
\* the prime stats, and among several of maximum value the FIRST in the
\* iteration order of the stat keys.
C10_FirstMaxWins ==
    call.op \in {"Stats::best", "Stats::best_prime"} =>
        LET stats == player.stats
            c == BestCandidates(stats, call.op)
            r == StatPos(stats, call.ret)
        IN  /\ r \in c
            /\ \A i \in c : stats[i].value <= stats[r].value
            /\ \A i \in c : stats[i].value = stats[r].value => r <= i

\* C10 as amended: best / best_prime return a stat of maximum value over all /
\* the prime stats, and among several of maximum value the LAST in the
\* iteration order of the stat keys.
C10_LastMaxWins ==
    call.op \in {"Stats::best", "Stats::best_prime"} =>
        LET stats == player.stats
            c == BestCandidates(stats, call.op)
            r == StatPos(stats, call.ret)
        IN  /\ r \in c
            /\ \A i \in c : stats[i].value <= stats[r].value
            /\ \A i \in c : stats[i].value = stats[r].value => i <= r

\* best on Stats where two stats that are neither first nor last tie for the maximum.
C10_Witness ==
    /\ call.op = "Stats::best"
    /\ LET stats == player.stats
           r == StatPos(stats, call.ret)
       IN  /\ r < Len(stats)
           /\ \E i \in 2..(r - 1) : stats[i].value = stats[r].value
           /\ stats[1].value < stats[r].value

(***************************************************************************)
(* Claims about the synthesized fight.                                     *)
(***************************************************************************)

\* C13: Task::monster returns a task with duration > 0 for every player_level
\* >= 1, every optional quest monster and every outcome of the draws, the
\* duration being 6000 * per-unit level * quantity / player_level (integer
\* division) milliseconds.
C13_MonsterDurationPositive ==
    (call.op = "Task::monster" /\ call.player_level >= 1) => call.ret.duration >= 1

(***************************************************************************)
(* SpecRoman: Roman::from_i32, Roman::to_roman on its result, and act_name, *)
(* on the numbers 0 .. MaxRoman.                                            *)
(***************************************************************************)
MaxRoman == 3999

from_char(c) ==
    CASE c = "M" -> 1000 [] c = "D" -> 500 [] c = "C" -> 100 [] c = "L" -> 50
      [] c = "X" -> 10 [] c = "V" -> 5 [] c = "I" -> 1 [] OTHER -> 0

\* The fold of Roman::to_roman over the characters from the last to the first.
Roman_to_roman(input) ==
    LET RECURSIVE Fold(_, _, _)
        Fold(i, a, max) ==
            IF i = 0 THEN a
            ELSE LET n == from_char(input[i])
                 IN  Fold(i - 1, IF n >= max THEN a + n ELSE a - n, Max(max, n))
    IN  Fold(Len(input), 0, 0)

\* The number is drawn by Init; each action applies the functions to it.
InitRoman ==
    /\ \E number \in 0..MaxRoman : call = [op |-> "input", number |-> number]
    /\ player = IdlePlayer
    /\ bar = IdleBar
    /\ builder = StatsBuilder_default
    /\ panic = None

RomanRoundTrip ==
    /\ call.op = "input"
    /\ LET numerals == Roman_from_i32(call.number)
       IN  call' = [op |-> "Roman::from_i32", number |-> call.number, ret |-> numerals,
                    back |-> Roman_to_roman(numerals)]
    /\ UNCHANGED <<player, bar, builder, panic>>

ActName ==
    /\ call.op = "input"
    /\ call' = [op |-> "act_name", number |-> call.number, ret |-> act_name(call.number),
                back |-> call.number]
    /\ UNCHANGED <<player, bar, builder, panic>>

NextRoman == RomanRoundTrip \/ ActName

SpecRoman == InitRoman /\ [][NextRoman]_vars

(***************************************************************************)
(* lingo::plural.  A word is the sequence of its characters.               *)
(***************************************************************************)
ends_with(subject, suffix) ==
    /\ Len(subject) >= Len(suffix)
    /\ SubSeq(subject, Len(subject) - Len(suffix) + 1, Len(subject)) = suffix

drop_last(subject, n) == SubSeq(subject, 1, Len(subject) - n)

\* plural with the rule for a final s put before the rule for a final us.
plural_es_first(subject) ==
    IF ends_with(subject, <<"y">>) THEN drop_last(subject, 1) \o <<"i", "e", "s">>
    ELSE IF \/ ends_with(subject, <<"x">>) \/ ends_with(subject, <<"s">>)
            \/ ends_with(subject, <<"c", "h">>) \/ ends_with(subject, <<"s", "h">>)
    THEN subject \o <<"e", "s">>
    ELSE IF ends_with(subject, <<"u", "s">>) THEN drop_last(subject, 2) \o <<"i">>
    ELSE IF ends_with(subject, <<"f">>) THEN drop_last(subject, 1) \o <<"v", "e", "s">>
    ELSE IF ends_with(subject, <<"m", "a", "n">>) \/ ends_with(subject, <<"M", "a", "n">>)
    THEN drop_last(subject, 2) \o <<"e", "n">>
    ELSE subject \o <<"s">>

plural(subject) ==
    IF ends_with(subject, <<"y">>) THEN drop_last(subject, 1) \o <<"i", "e", "s">>
    ELSE IF ends_with(subject, <<"u", "s">>) THEN drop_last(subject, 2) \o <<"i">>
    ELSE IF \/ ends_with(subject, <<"x">>) \/ ends_with(subject, <<"s">>)
            \/ ends_with(subject, <<"c", "h">>) \/ ends_with(subject, <<"s", "h">>)
    THEN subject \o <<"e", "s">>
    ELSE IF ends_with(subject, <<"f">>) THEN drop_last(subject, 1) \o <<"v", "e", "s">>
    ELSE IF ends_with(subject, <<"m", "a", "n">>) \/ ends_with(subject, <<"M", "a", "n">>)
    THEN drop_last(subject, 2) \o <<"e", "n">>
    ELSE subject \o <<"s">>

(***************************************************************************)
(* SpecPlural: plural on the sample words of the documentation and on      *)
(* every word of at most MaxWordLen letters that the rules tell apart.     *)
(***************************************************************************)
MaxWordLen == 3

Letters == {"y", "u", "s", "x", "c", "h", "f", "m", "M", "a", "n", "o"}

SampleWords ==
    {<<"s", "t", "o", "r", "y">>, <<"f", "o", "x">>, <<"e", "l", "f">>,
     <<"w", "o", "m", "a", "n">>, <<"c", "a", "c", "t", "u", "s">>}

Words == SampleWords \cup UNION {[1..n -> Letters] : n \in 0..MaxWordLen}

InitPlural ==
    /\ \E word \in Words : call = [op |-> "input", subject |-> word]
    /\ player = IdlePlayer
    /\ bar = IdleBar
    /\ builder = StatsBuilder_default
    /\ panic = None

Plural ==
    /\ call.op = "input"
    /\ call' = [op |-> "plural", subject |-> call.subject, ret |-> plural(call.subject)]
    /\ UNCHANGED <<player, bar, builder, panic>>

NextPlural == Plural

SpecPlural == InitPlural /\ [][NextPlural]_vars

(***************************************************************************)
(* Claims about the texts.                                                 *)
(***************************************************************************)

\* The standard subtractive numeral of n, digit by digit.
StandardDigit(d, one, five, ten) ==
    CASE d = 0 -> <<>>
      [] d = 1 -> <<one>>
      [] d = 2 -> <<one, one>>
      [] d = 3 -> <<one, one, one>>
      [] d = 4 -> <<one, five>>
      [] d = 5 -> <<five>>
      [] d = 6 -> <<five, one>>
      [] d = 7 -> <<five, one, one>>
      [] d = 8 -> <<five, one, one, one>>
      [] d = 9 -> <<one, ten>>

StandardNumeral(n) ==
    StandardDigit(n \div 1000, "M", "?", "?")
    \o StandardDigit((n \div 100) % 10, "C", "D", "M")
    \o StandardDigit((n \div 10) % 10, "X", "L", "C")
    \o StandardDigit(n % 10, "I", "V", "X")

\* C16: for every n in 1..3999, to_roman(from_i32(n)) = n and from_i32(n) is
\* the standard subtractive numeral (2014 is MMXIV, 1999 is MCMXCIX, 3888 is
\* MMMDCCCLXXXVIII); act_name(0) is "Prologue" and act_name(n) is "Act "
\* followed by from_i32(n) otherwise.
C16_RomanRoundTrip ==
    /\ (call.op = "Roman::from_i32" /\ call.number \in 1..3999) =>
          /\ call.back = call.number
          /\ call.ret = StandardNumeral(call.number)
          /\ call.number = 2014 => call.ret = <<"M", "M", "X", "I", "V">>
          /\ call.number = 1999 => call.ret = <<"M", "C", "M", "X", "C", "I", "X">>
          /\ call.number = 3888 =>
                call.ret = <<"M", "M", "M", "D", "C", "C", "C", "L", "X", "X", "X",
                             "V", "I", "I", "I">>
    /\ call.op = "act_name" =>
          IF call.number = 0 THEN call.ret = <<"Prologue">>
          ELSE /\ Head(call.ret) = "Act "
               /\ Roman_to_roman(Tail(call.ret)) = call.number
               /\ call.number <= 3999 => Tail(call.ret) = StandardNumeral(call.number)

\* The numeral of 1999, with its three subtractive pairs, has been read back.
C16_Witness ==
    /\ call.op = "Roman::from_i32"
    /\ call.number = 1999
    /\ call.ret = <<"M", "C", "M", "X", "C", "I", "X">>
    /\ call.back = 1999

\* The last n characters of a word (the whole word when it is shorter).
LastChars(word, n) == SubSeq(word, Max(Len(word) - n, 0) + 1, Len(word))

\* C17: plural applies the first matching rule in this order: a final y is
\* replaced by ies; a final us by i; after a final x, s, ch or sh, es is added;
\* a final f is replaced by ves; of a final man or Man the last two characters
\* are replaced by en; otherwise s is added.  plural("story") = "stories",
\* plural("fox") = "foxes", plural("elf") = "elves".
C17_PluralRules ==
    call.op = "plural" =>
        LET word == call.subject
            n == Len(word)
            stem1 == SubSeq(word, 1, n - 1)
            stem2 == SubSeq(word, 1, n - 2)
            last1 == LastChars(word, 1)
            last2 == LastChars(word, 2)
            last3 == LastChars(word, 3)
        IN  /\ call.ret =
                 CASE last1 = <<"y">> -> stem1 \o <<"i", "e", "s">>
                   [] last1 /= <<"y">> /\ last2 = <<"u", "s">> -> stem2 \o <<"i">>
                   [] last1 /= <<"y">> /\ last2 /= <<"u", "s">>
                      /\ (last1 \in {<<"x">>, <<"s">>} \/ last2 \in {<<"c", "h">>, <<"s", "h">>})
                        -> word \o <<"e", "s">>
                   [] last1 = <<"f">> -> stem1 \o <<"v", "e", "s">>
                   [] last3 \in {<<"m", "a", "n">>, <<"M", "a", "n">>} -> stem2 \o <<"e", "n">>
                   [] OTHER -> word \o <<"s">>
            /\ word = <<"s", "t", "o", "r", "y">> =>
                  call.ret = <<"s", "t", "o", "r", "i", "e", "s">>
            /\ word = <<"f", "o", "x">> => call.ret = <<"f", "o", "x", "e", "s">>
            /\ word = <<"e", "l", "f">> => call.ret = <<"e", "l", "v", "e", "s">>

\* A word ending in us, which the rule for a final s would also match.
C17_Witness ==
    /\ call.op = "plural"
    /\ call.subject = <<"c", "a", "c", "t", "u", "s">>
    /\ call.ret = <<"c", "a", "c", "t", "i">>

(***************************************************************************)
(* Claims about a tick.                                                    *)
(***************************************************************************)

\* C14: the act counter never decreases: it increases by exactly 1 each time
\* the completion effect of a Plot task is applied and changes at no other
\* time, so that in a run from a fresh Player act equals the number of Plot
\* tasks completed so far.
C14_ActCountsPlots ==
    call.op = "Simulation::tick" =>
        /\ player.quest_book.act = call.old.quest_book.act + PlotCount(call.log.completed)
        /\ player.quest_book.act >= call.old.quest_book.act
        /\ player.quest_book.act = call.plots

\* The Plot task of the prologue has just been completed.
C14_Witness ==
    /\ call.op = "Simulation::tick"
    /\ PlotCount(call.log.completed) = 1
    /\ call.old.quest_book.act = 0
    /\ player.quest_book.act = 1

\* C19: a tick that finds a current task whose meter is not done changes only
\* the cumulative elapsed time and the pos of the task meter (advanced by the
\* elapsed time, clamped to max); the current task, queue, level, experience,
\* quest and plot meters, inventory, gold, equipment, spells, quests and act
\* are unchanged.
C19_AdvanceOnly ==
    (/\ call.op = "Simulation::tick"
     /\ call.old.task /= None
     /\ call.old.task_bar.pos < call.old.task_bar.max) =>
        LET old == call.old
            pos == IF old.task_bar.pos + call.dt <= old.task_bar.max
                   THEN old.task_bar.pos + call.dt
                   ELSE old.task_bar.max
        IN  /\ player = [old EXCEPT !.elapsed = old.elapsed + call.dt, !.task_bar.pos = pos]
            /\ call.log.completed = <<>> /\ call.log.assigned = <<>>
            /\ panic = None

\* The meter of a fight was part-way and the tick had to clamp it.
C19_Witness ==
    /\ call.op = "Simulation::tick"
    /\ call.old.task /= None
    /\ Unwrap(call.old.task).kind = "Kill"
    /\ 0 < call.old.task_bar.pos /\ call.old.task_bar.pos < call.old.task_bar.max
    /\ call.old.task_bar.pos + call.dt > call.old.task_bar.max
    /\ player.task_bar.pos = player.task_bar.max

(***************************************************************************)
(* SpecResume: Simulation::new is handed a character that has already been *)
(* played, and the simulation ticks.  The characters are built with the    *)
(* operations of the model from the end of the introduction: a career of   *)
(* six-second fights with single rats, every quest 1049 seconds long and   *)
(* rewarded with a spell.                                                  *)
(***************************************************************************)
RatTail == <<"rat", "tail">>

\* One of the outcomes S of a step.
Pick(S) == CHOOSE x \in S : x.panic = None

IsRatFight(task) ==
    /\ task.kind = "Kill"
    /\ task.monster = Some(MONSTERS[1])
    /\ task.duration = 6000
    /\ task.description.qty = 1

\* The character when the first fight after the introduction is fought out:
\* 56 seconds of two-second ticks after creation.
Outset(d) ==
    [Player_new(RolledStats(d)) EXCEPT
        !.elapsed = 56000,
        !.quest_book.act = 1,
        !.quest_book.plot = Bar_reset(@, 60 * 60 * (1 + 5 * 1) * 1000),
        !.task = Some(CHOOSE t \in Task_monster(1, None) : IsRatFight(t)),
        !.task_bar = [pos |-> 6000, max |-> 6000]]

\* One outcome of the tick that processes the fought-out fight of p while the
\* plot meter is not full: the steps of tick in order, each with one of its
\* outcomes.
FightTick(p) ==
    LET w0 == [Run([p EXCEPT !.elapsed = @ + 2000]) EXCEPT !.log.branch = "gain"]
        w1 == IF Bar_is_done(p.exp_bar)
              THEN LET raised == Pick(LevelRaise(w0))
                       first == Pick(Player_choose_stat(raised))
                       second == Pick(Player_choose_stat(first))
                   IN  Pick(LevelReset(Pick(Player_choose_spell(second))))
              ELSE Pick(TickGain(w0))
        w2 == IF Bar_is_done(p.quest_book.quest)
                 \/ QuestBook_current_quest(p.quest_book) = None
              THEN LET reset == CHOOSE x \in QuestReset(w1) :
                                   x.player.quest_book.quest.max = 1049000
                       reward == IF IsSome(QuestBook_current_quest(p.quest_book))
                                 THEN Pick(Player_choose_spell(reset))
                                 ELSE reset
                   IN  Pick(QuestCaption(reward))
              ELSE Pick(TickQuest(w1))
        w3 == Pick(TickPlot(w2))
        w4 == CHOOSE x \in Simulation_dequeue(w3) : IsRatFight(Unwrap(x.player.task))
    IN  w4.player

\* The ticks that fill the meter of the current task, two seconds each.
FightOut(p) ==
    [p EXCEPT !.elapsed = @ + p.task_bar.max, !.task_bar.pos = p.task_bar.max]

CeilDiv(a, b) == (a + b - 1) \div b

\* The number of fights from p on whose ticks find none of the three meters
\* full, and the character after n <= PlainFights(p) of them: each takes a
\* processing tick and three ticks of fighting, adds six seconds to the three
\* meters and one rat tail to the entry the inventory already has.
PlainFights(p) ==
    IF QuestBook_current_quest(p.quest_book) = None THEN 0
    ELSE Min(CeilDiv(Bar_remaining(p.exp_bar), 6000),
             Min(CeilDiv(Bar_remaining(p.quest_book.quest), 6000),
                 CeilDiv(Bar_remaining(p.quest_book.plot), 6000)))

RatFights(p, n) ==
    [p EXCEPT !.elapsed = @ + n * 8000,
              !.exp_bar = Bar_increment(@, n * 6000),
              !.quest_book.quest = Bar_increment(@, n * 6000),
              !.quest_book.plot = Bar_increment(@, n * 6000),
              !.inventory = Inventory_add_item(@, RatTail, n)]

\* The character after `fights` more fights, or when the plot meter is full.
RECURSIVE Campaign(_, _)
Campaign(p, fights) ==
    IF fights = 0 \/ Bar_is_done(p.quest_book.plot) THEN p
    ELSE LET n == Min(fights, PlainFights(p))
         IN  IF n > 0
             THEN Campaign(RatFights(p, n), fights - n)
             ELSE Campaign(FightOut(FightTick(p)), fights - 1)

LowRoll == AllDraws(<<0, 0, 0>>, 0, 0)

\* The clock of the characters when the simulation is resumed, in seconds:
\* later than the 3600 fights take, the last tick of the fight in progress
\* having been as long as it takes.
ResumeSeconds == 30000

\* The character whose plot meter the last fight has filled: 3600 fights,
\* level 6, the fight fought out and not yet processed.
Veteran(roll) ==
    [Campaign(Outset(roll), Outset(roll).quest_book.plot.max \div 6000)
        EXCEPT !.elapsed = ResumeSeconds * 1000]

\* The character after `fights` fights at level 1 whose next fight, fought
\* out and not yet processed, is with an ogre: its talon will be the second
\* entry of the inventory.
PackFights == {17, 18}

Packed(roll, fights) ==
    LET p == Campaign(Outset(roll), fights)
        ogre == CHOOSE t \in Task_monster(p.level, p.quest_book.monster) :
                   t.monster = Some(MONSTERS[3]) /\ t.duration = p.task_bar.max
    IN  [p EXCEPT !.task = Some(ogre), !.elapsed = ResumeSeconds * 1000]

\* The character of the prologue: the first tick is done, "Loading" has
\* completed and "Loading Act I", taken from the back of the queue, has run
\* its two seconds.
Prologue(roll) ==
    LET p == TickBootstrap(Run(Player_new(RolledStats(roll)))).player
        loaded == Player_set_task([p EXCEPT !.queue = SubSeq(@, 1, Len(@) - 1)],
                                  p.queue[Len(p.queue)])
    IN  [loaded EXCEPT !.task_bar.pos = loaded.task_bar.max,
                       !.elapsed = ResumeSeconds * 1000]

Snapshots(roll) ==
    {Prologue(roll), Veteran(roll)} \cup {Packed(roll, fights) : fights \in PackFights}

MaxResumeSeconds == 30

InitResume ==
    /\ \E roll \in {LowRoll} :
         /\ player \in Snapshots(roll)
         /\ builder = StatsBuilder_roll(StatsBuilder_default, roll)
    /\ call = [op |-> "Simulation::new", plots |-> player.quest_book.act]
    /\ bar = IdleBar
    /\ panic = None

ResumeTick == TickUntil((ResumeSeconds + MaxResumeSeconds) * 1000)

NextResume == ResumeTick

SpecResume == InitResume /\ [][NextResume]_vars

(***************************************************************************)
(* Claims about the choice of the next task                                *)
(***************************************************************************)
\* The queue as the dequeue loop of the last tick found it: the cinematic
\* appends its first beat before the loop runs, the others after it.
QueueAtChoice ==
    IF call.log.enqueued = <<>> THEN call.old.queue
    ELSE Append(call.old.queue, call.log.enqueued[1])

\* The last tick completed one task and chose the next one.
OneCompletion ==
    /\ call.op = "Simulation::tick"
    /\ panic = None
    /\ Len(call.log.completed) = 1
    /\ Len(call.log.assigned) = 1

\* The priority list, and whether the task `next` follows it after `old`.
ByPriority(old, next) ==
    IF Bar_is_done(player.inventory.encumbrance)
    THEN next = Task_heading_to_market(Text("Heading to market to sell loot"), 4000)
    ELSE IF QueueAtChoice /= <<>>
    THEN next = QueueAtChoice[Len(QueueAtChoice)]
    ELSE IF old.kind \notin {"Kill", "HeadingOut"}
    THEN IF player.inventory.gold > Player_equipment_price(player)
         THEN next = Task_buy(Text("Negotiating purchase of better equipment"), 5000)
         ELSE next = Task_heading_out(Text("Heading out into the world"), 4000)
    ELSE next \in Task_monster(player.level, player.quest_book.monster)

\* C18 as stated: after the effect of a completed task the next task is
\* chosen by the priority list (a) encumbrance meter done: HeadingToMarket,
\* (b) queue non-empty: its tail, (c) finished task neither Kill nor
\* HeadingOut: Buy when gold > equipment price, else HeadingOut, (d) a
\* synthesized Kill task.
C18_StrictPriority ==
    OneCompletion => ByPriority(call.log.completed[1], call.log.assigned[1])

\* C18 amended: when a HeadingToMarket or Sell task completes and the
\* inventory is not empty after its effect, the next task is a Sell task for
\* the last inventory entry; in every other case the next task is chosen by
\* the priority list.
C18_PriorityAfterMarket ==
    OneCompletion =>
        LET old == call.log.completed[1]
            next == call.log.assigned[1]
            items == player.inventory.items
        IN  /\ player.task = Some(next)
            /\ IF old.kind \in {"HeadingToMarket", "Sell"} /\ items /= <<>>
               THEN next = Task_sell(Describe("Selling {}", "indefinite", <<>>,
                                              items[Len(items)].name,
                                              items[Len(items)].quantity), 1000)
               ELSE ByPriority(old, next)

\* C18 witness: a Plot task completed, its reward filled the encumbrance
\* meter, and HeadingToMarket was chosen although the queue was not empty.
C18_Witness ==
    /\ OneCompletion
    /\ call.log.completed[1].kind = "Plot"
    /\ QueueAtChoice /= <<>>
    /\ Unwrap(player.task).kind = "HeadingToMarket"

(***************************************************************************)
(* Claims about fatal failures                                             *)
(***************************************************************************)
\* C15: no tick fails: the run of every tick ends without a panic (no index
\* into or pop from an empty inventory, a current task whenever dequeue
\* expects one), every range the next tick can draw from is non-empty, so
\* that the next tick has an outcome, and none of its outcomes is a panic.
C15_NoFatalViolation ==
    /\ panic = None
    /\ player.level >= 1
    /\ Stats_index(player.stats, "Wisdom") + player.level >= 1
    /\ SumSquares(player.stats) >= 1
    /\ player.quest_book.act + 2 >= 1
    /\ \A dt \in ElapsedValues :
         /\ Simulation_tick(player, dt) /= {}
         /\ \A w \in Simulation_tick(player, dt) : w.panic = None

\* C15 witness: a Sell task completed, its effect popped the last entry of
\* the inventory, and the run went on to choose the next task.
C15_Witness ==
    /\ OneCompletion
    /\ call.log.completed[1].kind = "Sell"
    /\ call.old.inventory.items /= <<>>
    /\ player.inventory.items = <<>>

(***************************************************************************)
(* Claims about the completion of tasks                                    *)
(***************************************************************************)
\* The quantity the inventory holds under `name`.
Held(inv, name) ==
    SumQuantities(SelectSeq(inv.items, LAMBDA e : e.name = name))

\* The effect of the task `task`, completed alone by the last tick, shows
\* once in the ledgers: one piece of loot, one sale, one purchase, one act.
EffectOnce(task) ==
    LET old == call.old
    IN  /\ (task.kind = "Kill" /\ IsSome(task.monster) /\ IsSome(Unwrap(task.monster).item)) =>
               LET m == Unwrap(task.monster)
                   loot == <<to_lowercase(m.name), to_lowercase(Unwrap(m.item))>>
               IN  Held(player.inventory, loot) = Held(old.inventory, loot) + 1
        /\ (task.kind = "Sell" /\ old.inventory.items /= <<>>) =>
               /\ player.inventory.items =
                      SubSeq(old.inventory.items, 1, Len(old.inventory.items) - 1)
               /\ player.inventory.gold >=
                      old.inventory.gold + old.inventory.items[1].quantity * old.level
        /\ task.kind = "Buy" =>
               player.inventory.gold = old.inventory.gold - Player_equipment_price(old)
        /\ task.kind = "Plot" => player.quest_book.act = old.quest_book.act + 1
        /\ task.kind \in {"Regular", "HeadingOut", "HeadingToMarket"} =>
               /\ player.inventory = old.inventory
               /\ player.quest_book = old.quest_book
               /\ player.equipment = old.equipment

\* C11: a tick completes no task while the current task's meter is not done;
\* a tick that finds it done completes exactly that task, once, and every
\* further task the same call completes is one the call itself assigned and
\* whose meter was done at once (duration 0); the call assigns as many tasks
\* as it completes and leaves the last one current with a fresh meter.  This
\* holds of the tick in which the cinematic enters dequeue with every beat
\* it enqueues.
C11_CompletedOnce ==
    call.op = "Simulation::tick" =>
        LET old == call.old
            completed == call.log.completed
            assigned == call.log.assigned
        IN  /\ panic = None
            /\ ~call.log.unfinished
            /\ IF old.task = None \/ ~Bar_is_done(old.task_bar)
               THEN completed = <<>> /\ assigned = <<>>
               ELSE /\ Len(completed) >= 1
                    /\ completed[1] = Unwrap(old.task)
                    /\ Len(assigned) = Len(completed)
                    /\ \A i \in 2..Len(completed) :
                           completed[i] = assigned[i - 1] /\ completed[i].duration = 0
                    /\ player.task = Some(assigned[Len(assigned)])
                    /\ player.task_bar = [pos |-> 0, max |-> assigned[Len(assigned)].duration]
                    /\ Len(completed) = 1 => EffectOnce(completed[1])
            /\ call.log.enqueued /= <<>> =>
                   /\ completed = <<Unwrap(old.task)>>
                   /\ assigned \in {<<call.log.enqueued[1]>>,
                                    <<Task_heading_to_market(
                                          Text("Heading to market to sell loot"), 4000)>>}

\* C11 witness: the plot meter was full when a fight was processed; the
\* cinematic enqueued its beats, the fight was completed once with its loot,
\* and the first beat is the current task.
C11_Witness ==
    /\ call.op = "Simulation::tick"
    /\ Len(call.log.enqueued) >= 2
    /\ call.log.completed = <<Unwrap(call.old.task)>>
    /\ Unwrap(call.old.task).kind = "Kill"
    /\ Held(player.inventory, RatTail) = Held(call.old.inventory, RatTail) + 1
    /\ player.task = Some(call.log.enqueued[1])

(***************************************************************************)
(* Claims about the queue                                                  *)
(***************************************************************************)
\* C12: a tick changes the queue only by appending at its tail (the five
\* tasks of the first tick, the beats of a cinematic in the order they are
\* enqueued) and by taking its tail, which then is the current task; the
\* tasks that stay keep their order.
C12_LastInFirstOut ==
    call.op = "Simulation::tick" =>
        LET old == call.old.queue
            enqueued == call.log.enqueued
        IN  IF call.old.task = None
            THEN /\ Len(player.queue) = Len(old) + Len(FLAVOR_TASKS) + 1
                 /\ SubSeq(player.queue, 1, Len(old)) = old
                 /\ \A i \in 1..Len(FLAVOR_TASKS) :
                        player.queue[Len(old) + i] =
                            Task_regular(Text(FLAVOR_TASKS[i].title), FLAVOR_TASKS[i].duration)
                 /\ player.queue[Len(player.queue)].kind = "Plot"
            ELSE IF enqueued /= <<>>
            THEN \/ player.queue = old \o enqueued
                 \/ /\ player.queue = old \o Tail(enqueued)
                    /\ player.task = Some(enqueued[1])
            ELSE \/ player.queue = old
                 \/ /\ old /= <<>>
                    /\ player.queue = SubSeq(old, 1, Len(old) - 1)
                    /\ player.task = Some(old[Len(old)])
                    /\ call.log.assigned = <<old[Len(old)]>>

\* C12 witness: the queue held the beats of a cinematic and the Plot task
\* enqueued after them; the tick took the Plot task and left the beats.
C12_Witness ==
    /\ call.op = "Simulation::tick"
    /\ call.log.enqueued = <<>>
    /\ Len(call.old.queue) >= 2
    /\ call.old.queue[Len(call.old.queue)].kind = "Plot"
    /\ player.queue = SubSeq(call.old.queue, 1, Len(call.old.queue) - 1)
    /\ player.task = Some(call.old.queue[Len(call.old.queue)])

(***************************************************************************)
(* Claims about what a tick leaves alone                                   *)
(***************************************************************************)
\* The last call was a tick that did not process a completed Kill task.
NoFightProcessed ==
    /\ call.op = "Simulation::tick"
    /\ \/ call.old.task = None
       \/ ~Bar_is_done(call.old.task_bar)
       \/ Unwrap(call.old.task).kind /= "Kill"

\* Level, experience meter, quest meter and quest list are as before the call.
CareerUnchanged ==
    /\ player.level = call.old.level
    /\ player.exp_bar = call.old.exp_bar
    /\ player.quest_book.quest = call.old.quest_book.quest
    /\ player.quest_book.quests = call.old.quest_book.quests

\* C20 as stated: level, the experience meter, the quest meter, the progress
\* of the plot meter and the quest list change only on a tick that processes
\* a completed Kill task.
C20_OnlyFightsChange ==
    NoFightProcessed =>
        /\ CareerUnchanged
        /\ player.quest_book.plot.pos = call.old.quest_book.plot.pos

\* C20 amended: a tick that does not process a completed Kill task leaves
\* level, experience meter, quest meter and quest list unchanged; it leaves
\* the plot meter unchanged too, unless it is the first tick, which resets
\* the meter to 28 seconds, or it completes a Plot task, which resets it to
\* 3600 * (1 + 5 * act) seconds for the new act: in both cases the progress
\* is zero afterwards.
C20_FightsAndActsChange ==
    NoFightProcessed =>
        /\ CareerUnchanged
        /\ IF call.old.task = None
           THEN player.quest_book.plot = Bar_reset(call.old.quest_book.plot, 28000)
           ELSE IF PlotCount(call.log.completed) > 0
           THEN player.quest_book.plot =
                    Bar_reset(call.old.quest_book.plot,
                              60 * 60 * (1 + 5 * player.quest_book.act) * 1000)
           ELSE player.quest_book.plot = call.old.quest_book.plot

\* C20 witness: a Plot task completed while the plot meter was full; the
\* meter is back at zero and the career is as it was.
C20_Witness ==
    /\ NoFightProcessed
    /\ PlotCount(call.log.completed) = 1
    /\ call.old.quest_book.plot.pos > 0
    /\ player.quest_book.plot.pos = 0
    /\ CareerUnchanged

(***************************************************************************)
(* SpecCareer: the simulation is resumed on a character at level 1 whose   *)
(* fought-out fight is the first one and meets no quest (0 fights before   *)
(* it), or meets a full quest meter (176 fights: the first quest came with *)
(* the first fight, 175 fights of six seconds fill its 1049 seconds), or   *)
(* meets a full experience meter (200 fights fill 1200 seconds).           *)
(***************************************************************************)
CareerFights == {0, 176, 200}

Seasoned(roll, fights) ==
    [Campaign(Outset(roll), fights) EXCEPT !.elapsed = ResumeSeconds * 1000]

MaxCareerSeconds == 4

InitCareer ==
    /\ \E roll \in {LowRoll} :
         /\ player \in {Seasoned(roll, fights) : fights \in CareerFights}
         /\ builder = StatsBuilder_roll(StatsBuilder_default, roll)
    /\ call = [op |-> "Simulation::new", plots |-> player.quest_book.act]
    /\ bar = IdleBar
    /\ panic = None

CareerTick == TickUntil((ResumeSeconds + MaxCareerSeconds) * 1000)

NextCareer == CareerTick

SpecCareer == InitCareer /\ [][NextCareer]_vars

(***************************************************************************)
(* Claims about the progress a fight brings                                *)
(***************************************************************************)
\* The last call was a tick that processed a completed Kill task.
FightProcessed ==
    /\ call.op = "Simulation::tick"
    /\ call.old.task /= None
    /\ Bar_is_done(call.old.task_bar)
    /\ Unwrap(call.old.task).kind = "Kill"

\* C21: a tick that processes a completed Kill task raises the level by one
\* and resets the experience meter to pos 0 and max 1200 s x the new level
\* when the meter was done at entry; otherwise the level stays and the meter
\* advances by the duration of the completed task, clamped to max.  No tick
\* lowers the level or raises it by more than one.
C21_ExperienceAndLevel ==
    call.op = "Simulation::tick" =>
        LET old == call.old
        IN  /\ player.level >= old.level
            /\ player.level <= old.level + 1
            /\ FightProcessed =>
                   IF old.exp_bar.pos >= old.exp_bar.max
                   THEN /\ player.level = old.level + 1
                        /\ player.exp_bar = [pos |-> 0, max |-> 1200 * 1000 * player.level]
                   ELSE /\ player.level = old.level
                        /\ player.exp_bar =
                               [pos |-> Min(old.exp_bar.pos + Unwrap(old.task).duration,
                                            old.exp_bar.max),
                                max |-> old.exp_bar.max]

\* C21 witness: the experience meter of the level-1 character was full when
\* its fight was processed; the character is at level 2 with an empty meter.
C21_Witness ==
    /\ FightProcessed
    /\ call.old.exp_bar.pos = call.old.exp_bar.max
    /\ call.old.level = 1
    /\ player.level = 2
    /\ player.exp_bar.pos = 0

\* The entries the inventory `inv` can hold after the loot of the fight
\* `task`: the drop of the monster, a special item for a monster that
\* carries nothing, nothing for an encounter without a monster.
AfterLoot(inv, task) ==
    IF task.monster = None THEN {inv.items}
    ELSE IF Unwrap(task.monster).item = None
    THEN {Inventory_add_item(inv, item, 1).items : item \in special_item}
    ELSE {Inventory_add_item(inv, <<to_lowercase(Unwrap(task.monster).name),
                                   to_lowercase(Unwrap(Unwrap(task.monster).item))>>,
                             1).items}

\* C22: a tick that processes a completed Kill task in act >= 1 generates a
\* quest when the quest meter is done or there is no current quest: one
\* caption is appended (the oldest leaves a full list), the meter is reset to
\* pos 0 and a max of 50..1049 s, and without a quest before it no reward is
\* granted (spells, equipment and stats stay, the inventory gains the loot
\* only); otherwise the list stays and the meter advances by the duration of
\* the completed task, clamped.
C22_QuestProgress ==
    (FightProcessed /\ call.old.quest_book.act >= 1) =>
        LET old == call.old
            before == old.quest_book.quests
            after == player.quest_book.quests
            kept == IF Len(before) >= MAX_QUESTS
                    THEN SubSeq(before, Len(before) - MAX_QUESTS + 2, Len(before))
                    ELSE before
        IN  IF old.quest_book.quest.pos >= old.quest_book.quest.max \/ before = <<>>
            THEN /\ Len(after) = Len(kept) + 1
                 /\ SubSeq(after, 1, Len(kept)) = kept
                 /\ player.quest_book.quest.pos = 0
                 /\ player.quest_book.quest.max \in (50 * 1000)..(1049 * 1000)
                 /\ (before = <<>> /\ old.exp_bar.pos < old.exp_bar.max) =>
                        /\ player.spell_book = old.spell_book
                        /\ player.equipment = old.equipment
                        /\ player.stats = old.stats
                        /\ player.inventory.gold = old.inventory.gold
                        /\ player.inventory.items \in AfterLoot(old.inventory, Unwrap(old.task))
            ELSE /\ after = before
                 /\ player.quest_book.quest =
                        [pos |-> Min(old.quest_book.quest.pos + Unwrap(old.task).duration,
                                     old.quest_book.quest.max),
                         max |-> old.quest_book.quest.max]

\* C22 witness: the quest meter was full, a second caption follows the first
\* one and the reward was a spell.
C22_Witness ==
    /\ FightProcessed
    /\ call.old.quest_book.quest.pos = call.old.quest_book.quest.max
    /\ Len(call.old.quest_book.quests) = 1
    /\ Len(player.quest_book.quests) = 2
    /\ player.quest_book.quest.pos = 0
    /\ call.old.spell_book = <<>>
    /\ player.spell_book /= <<>>

\* C23: while act is 0 a tick leaves the quest meter, the quest list and the
\* position of the plot meter alone and enqueues no cinematic; a Kill task is
\* current only in act >= 1, i.e. "Loading Act I" has completed before the
\* first Kill task is assigned.
C23_NothingBeforeActOne ==
    /\ (player.task /= None /\ Unwrap(player.task).kind = "Kill") =>
           player.quest_book.act >= 1
    /\ (call.op = "Simulation::tick" /\ call.old.quest_book.act = 0) =>
           /\ player.quest_book.quest = call.old.quest_book.quest
           /\ player.quest_book.quests = call.old.quest_book.quests
           /\ player.quest_book.plot.pos = call.old.quest_book.plot.pos
           /\ call.log.enqueued = <<>>
           /\ \A i \in 1..Len(call.log.assigned) : call.log.assigned[i].kind /= "Kill"

\* C23 witness: the tick that completes "Loading Act I" in act 0 and makes
\* act 1, with no fight assigned yet.
C23_Witness ==
    /\ call.op = "Simulation::tick"
    /\ call.old.quest_book.act = 0
    /\ call.log.completed = <<Task_plot(Format("Loading {}", act_name(1)), 2000)>>
    /\ player.quest_book.act = 1
    /\ player.task /= None
    /\ Unwrap(player.task).kind = "Regular"

\* The entries the inventory `inv` holds after one unit of loot for the fight
\* `task` when every fight grants loot: the drop of a monster that carries an
\* item, a special item in every other case.
WithLoot(inv, task) ==
    IF task.monster /= None /\ Unwrap(task.monster).item /= None
    THEN AfterLoot(inv, task)
    ELSE {Inventory_add_item(inv, item, 1).items : item \in special_item}

\* The tick grants no quest reward: there was no quest, or its meter is not full.
NoQuestReward ==
    \/ call.old.quest_book.quests = <<>>
    \/ call.old.quest_book.quest.pos < call.old.quest_book.quest.max

\* C24: every completed Kill task grants loot: the inventory gains exactly one
\* unit, the lower-cased "<monster name> <item>" if the monster carries an
\* item and a special item otherwise, also for an encounter that records no
\* monster.
C24_EveryKillGrantsLoot ==
    (FightProcessed /\ NoQuestReward /\ panic = None) =>
        player.inventory.items \in WithLoot(call.old.inventory, Unwrap(call.old.task))

\* The amounts of gold a sale of the entry `item` can bring at `level`.
SalePrices(item, level) ==
    IF \E i \in 2..(Len(item.name) - 1) : item.name[i] = "of"
    THEN {item.quantity * level * factor :
             factor \in {1 + a * (1 + b) : a \in below_low(10), b \in below_low(level)}}
    ELSE {item.quantity * level}

\* The tick completed a Sell task with entries in the inventory.
SellProcessed ==
    /\ call.op = "Simulation::tick"
    /\ call.log.completed /= <<>>
    /\ call.log.completed[1].kind = "Sell"
    /\ call.old.inventory.items /= <<>>
    /\ panic = None

\* C25: a completed Sell task removes the last inventory entry, leaves the
\* other entries unchanged, and adds to gold the quantity of that removed
\* entry times the level, times a random factor >= 1 only when the name of
\* that entry contains " of ".
C25_SellPaysRemovedEntry ==
    SellProcessed =>
        LET items == call.old.inventory.items
            last == items[Len(items)]
        IN  /\ player.inventory.items = SubSeq(items, 1, Len(items) - 1)
            /\ (player.inventory.gold - call.old.inventory.gold)
                   \in SalePrices(last, call.old.level)

\* The tick completed a HeadingToMarket or Sell task with entries in the
\* inventory: a step of a market trip.
TripStep ==
    /\ call.op = "Simulation::tick"
    /\ call.log.completed /= <<>>
    /\ call.log.completed[1].kind \in {"HeadingToMarket", "Sell"}
    /\ call.old.inventory.items /= <<>>
    /\ panic = None

\* C26: after a HeadingToMarket task completes with a non-empty inventory the
\* engine runs one Sell task per inventory entry with nothing in between:
\* while entries remain the step of the trip assigns a Sell task and nothing
\* else (a completed Sell has removed one entry, HeadingToMarket none), a Sell
\* task is current only with an entry to sell, and a task of another kind is
\* assigned only once the inventory is empty and encumbrance pos is 0.
C26_MarketTrip ==
    /\ (player.task /= None /\ Unwrap(player.task).kind = "Sell") =>
           player.inventory.items /= <<>>
    /\ TripStep =>
           LET items == call.old.inventory.items
               left == IF call.log.completed[1].kind = "Sell"
                       THEN SubSeq(items, 1, Len(items) - 1) ELSE items
           IN  /\ player.inventory.items = left
               /\ left /= <<>> =>
                      /\ Len(call.log.completed) = 1
                      /\ Len(call.log.assigned) = 1
                      /\ call.log.assigned[1].kind = "Sell"
                      /\ player.task = Some(call.log.assigned[1])
                      /\ player.queue = call.old.queue
               /\ (\E i \in 1..Len(call.log.assigned) : call.log.assigned[i].kind /= "Sell") =>
                      /\ player.inventory.items = <<>>
                      /\ player.inventory.encumbrance.pos = 0

\* C26 witness: the Sell task of the last of two entries is complete with the
\* encumbrance meter full; the inventory is emptied, encumbrance pos is 0 and
\* a task of another kind follows.
C26_Witness ==
    /\ TripStep
    /\ call.log.completed[1].kind = "Sell"
    /\ Len(call.old.inventory.items) = 1
    /\ call.old.inventory.encumbrance.pos >= call.old.inventory.encumbrance.max
    /\ player.inventory.items = <<>>
    /\ player.inventory.encumbrance.pos = 0
    /\ call.log.assigned /= <<>>
    /\ call.log.assigned[1].kind /= "Sell"

\* The tick completed a Plot task.
PlotProcessed ==
    /\ call.op = "Simulation::tick"
    /\ call.log.completed /= <<>>
    /\ call.log.completed[1].kind = "Plot"
    /\ panic = None

\* C27: a completed Plot task increments act and resets the plot meter to
\* pos 0 and max 3600 * (1 + 5 * act) seconds for the new act (21600 on
\* entering act 1); an item and an equipment are granted when the new act is
\* greater than 1 and not otherwise.
C27_ActEntered ==
    PlotProcessed =>
        LET act == call.old.quest_book.act + 1
        IN  /\ player.quest_book.act = act
            /\ player.quest_book.plot = [pos |-> 0, max |-> 3600 * (1 + 5 * act) * 1000]
            /\ act = 1 => player.quest_book.plot.max = 21600 * 1000
            /\ player.inventory.gold = call.old.inventory.gold
            /\ IF act > 1
               THEN player.inventory.items \in
                        {Inventory_add_item(call.old.inventory, item, 1).items :
                            item \in special_item}
               ELSE /\ player.inventory.items = call.old.inventory.items
                    /\ player.equipment = call.old.equipment

\* C27 witness: act 2 is entered with a new item and a new piece of equipment.
C27_Witness ==
    /\ PlotProcessed
    /\ call.old.quest_book.act = 1
    /\ player.quest_book.act = 2
    /\ player.quest_book.plot = [pos |-> 0, max |-> 39600 * 1000]
    /\ Len(player.inventory.items) = Len(call.old.inventory.items) + 1
    /\ player.equipment /= call.old.equipment

\* C28: among the tasks one cinematic enqueues, the Plot task "Loading Act
\* N+1" is the last to become the current task, so that act is incremented
\* only after all beats of that cinematic have been played: from act 1 on
\* (the queue then holds nothing but the tasks of a cinematic) a Plot task is
\* current, and is completed, only with no beat left in the queue.
C28_PlotTaskLast ==
    /\ (/\ player.task /= None
        /\ Unwrap(player.task).kind = "Plot"
        /\ player.quest_book.act >= 1) => player.queue = <<>>
    /\ (PlotProcessed /\ call.old.quest_book.act >= 1) => call.old.queue = <<>>

\* The number of Plot tasks pending for the Player p: current or queued.
PendingPlots(p) ==
    (IF p.task /= None /\ Unwrap(p.task).kind = "Plot" THEN 1 ELSE 0)
    + Len(SelectSeq(p.queue, LAMBDA t : t.kind = "Plot"))

\* C29: at most one Plot task is pending, current or queued; a tick enqueues
\* a cinematic only with the plot meter full and no Plot task pending, and
\* the cinematic brings one Plot task; the Plot task that completes is the
\* one described "Loading Act k" for the k that act then has.
C29_OnePlotPending ==
    /\ PendingPlots(player) <= 1
    /\ (call.op = "Simulation::tick" /\ call.log.enqueued /= <<>>) =>
           /\ Bar_is_done(call.old.quest_book.plot)
           /\ PendingPlots(call.old) = 0
           /\ Len(SelectSeq(call.log.enqueued, LAMBDA t : t.kind = "Plot")) = 1
    /\ PlotProcessed =>
           /\ PlotCount(call.log.completed) = 1
           /\ call.log.completed[1].description =
                  Format("Loading {}", act_name(player.quest_book.act))

\* C29 witness: the tick enqueued a cinematic, whose Plot task waits in the
\* queue for act 2.
C29_Witness ==
    /\ call.op = "Simulation::tick"
    /\ call.log.enqueued /= <<>>
    /\ PendingPlots(player) = 1
    /\ player.quest_book.act = 1
    /\ player.queue /= <<>>
    /\ player.queue[Len(player.queue)].description = Format("Loading {}", act_name(2))

(***************************************************************************)
(* SpecUnnamed: unnamed_monster on the target levels 0 .. MaxTargetLevel,   *)
(* with the attempts its callers pass (3 and 1 for a quest, 4 for a named   *)
(* monster, 5 for an encounter) and every sequence of candidates drawn.     *)
(***************************************************************************)
MaxTargetLevel == 6

UnnamedAttempts == {1, 3, 4, 5}

\* The loop of unnamed_monster on the candidates `alts` drawn in this order,
\* `monster` being the one held.
RECURSIVE unnamed_monster_drawn(_, _, _)
unnamed_monster_drawn(monster, level, alts) ==
    IF alts = <<>> THEN monster
    ELSE unnamed_monster_drawn(
            IF saturating_sub(level, Head(alts).level) < saturating_sub(level, monster.level)
            THEN Head(alts) ELSE monster,
            level, Tail(alts))

\* The target level and the candidates are drawn by Init; the action applies
\* the function to them.
InitUnnamed ==
    /\ \E level \in 0..MaxTargetLevel, attempts \in UnnamedAttempts :
         \E draws \in [1..(1 + attempts) -> 1..Len(MONSTERS)] :
            call = [op |-> "input", level |-> level,
                    drawn |-> [i \in 1..(1 + attempts) |-> MONSTERS[draws[i]]]]
    /\ player = IdlePlayer
    /\ bar = IdleBar
    /\ builder = StatsBuilder_default
    /\ panic = None

CallUnnamedMonster ==
    /\ call.op = "input"
    /\ call' = [op |-> "unnamed_monster", level |-> call.level, drawn |-> call.drawn,
                ret |-> unnamed_monster_drawn(Head(call.drawn), call.level, Tail(call.drawn))]
    /\ UNCHANGED <<player, builder, bar, panic>>

NextUnnamed == CallUnnamedMonster

SpecUnnamed == InitUnnamed /\ [][NextUnnamed]_vars

\* C30: unnamed_monster(level, N) returns, of the 1 + N candidates drawn, the
\* earliest one whose absolute level distance |level - candidate.level| is
\* minimal among those drawn, for candidates below and above the target level.
C30_ClosestOfN ==
    call.op = "unnamed_monster" =>
        LET drawn == call.drawn
            Distance(i) == Abs(call.level - drawn[i].level)
            closest == CHOOSE i \in 1..Len(drawn) :
                          /\ \A j \in 1..Len(drawn) : Distance(i) <= Distance(j)
                          /\ \A j \in 1..(i - 1) : Distance(j) > Distance(i)
        IN  call.ret = drawn[closest]

(***************************************************************************)
(* SpecAdjective: the match of Task::monster that puts an adjective before *)
(* the result, on the levels 1 .. MaxEncounterLevel and the monster levels *)
(* 0 .. MaxEncounterLevel.                                                  *)
(***************************************************************************)
MaxEncounterLevel == 12

\* The two levels are drawn by Init; the action applies the match to them.
InitAdjective ==
    /\ \E level \in 1..MaxEncounterLevel, task_level \in 0..MaxEncounterLevel :
         call = [op |-> "input", level |-> level, task_level |-> task_level]
    /\ player = IdlePlayer
    /\ bar = IdleBar
    /\ builder = StatsBuilder_default
    /\ panic = None

ChooseAdjective ==
    /\ call.op = "input"
    /\ \E adjective \in Adjectives(call.level, call.task_level) :
         call' = [op |-> "Task::monster (adjective)", level |-> call.level,
                  task_level |-> call.task_level, ret |-> adjective]
    /\ UNCHANGED <<player, builder, bar, panic>>

NextAdjective == ChooseAdjective

SpecAdjective == InitAdjective /\ [][NextAdjective]_vars

\* C31: the signed gap level - task_level selects exactly one adjective band:
\* "imaginary" for gaps <= -10 and for no other, words of the sick and young
\* lists only for -10 < gap < 0, "unreal" for gaps >= 10 and for no other, and
\* for 0 < gap < 10 an adjective of the big and special lists (none of the
\* other bands' words).
C31_AdjectiveBands ==
    call.op = "Task::monster (adjective)" =>
        LET gap == call.level - call.task_level
            words == Range(call.ret)
            ailing == Range(SICK_LIST) \cup Range(YOUNG_LIST)
        IN  /\ (call.ret = <<"imaginary">>) <=> (gap <= -10)
            /\ (call.ret = <<"unreal">>) <=> (gap >= 10)
            /\ (words \cap ailing /= {}) => (-10 < gap /\ gap < 0)
            /\ (-10 < gap /\ gap < 0) => words \subseteq ailing
            /\ (0 < gap /\ gap < 10) => words \cap (ailing \cup {"imaginary", "unreal"}) = {}

\* The tick completed a Buy task.
BuyProcessed ==
    /\ call.op = "Simulation::tick"
    /\ call.log.completed /= <<>>
    /\ call.log.completed[1].kind = "Buy"
    /\ panic = None

\* C32: the gold balance is never negative: while a Buy task is current gold
\* strictly exceeds the price 5 L^2 + 10 L + 20 of the current level L, a
\* tick that advances the Buy task changes neither gold nor level, and the
\* completion of the Buy deducts exactly that price.
C32_GoldNeverNegative ==
    /\ player.inventory.gold >= 0
    /\ (player.task /= None /\ Unwrap(player.task).kind = "Buy") =>
           player.inventory.gold > 5 * player.level * player.level + 10 * player.level + 20
    /\ (/\ call.op = "Simulation::tick"
        /\ call.old.task /= None
        /\ Unwrap(call.old.task).kind = "Buy") =>
           /\ player.level = call.old.level
           /\ player.inventory.gold =
                  IF BuyProcessed
                  THEN call.old.inventory.gold
                       - (5 * call.old.level * call.old.level + 10 * call.old.level + 20)
                  ELSE call.old.inventory.gold

\* C32 witness: a Buy task has completed and the price was paid out of a
\* larger balance.
C32_Witness ==
    /\ BuyProcessed
    /\ player.inventory.gold > 0
    /\ player.inventory.gold < call.old.inventory.gold
    /\ player.equipment /= call.old.equipment

(***************************************************************************)
(* SpecCreation: the character-creation view.  make_new_character builds   *)
(* the Player from a first roll; the Roll and Unroll buttons replace the   *)
(* stats of that Player.                                                   *)
(***************************************************************************)
CreationRoll ==
    /\ \E d \in RollDraws :
         /\ builder' = StatsBuilder_roll(builder, d)
         /\ player' = [player EXCEPT !.stats = RolledStats(d)]
         /\ call' = [op |-> "Roll", ret |-> Some(RolledStats(d)), old |-> builder]
    /\ UNCHANGED <<bar, panic>>

CreationUnroll ==
    /\ StatsBuilder_has_history(builder)
    /\ builder' = StatsBuilder_unroll(builder)
    /\ player' = [player EXCEPT !.stats = builder'[Len(builder')]]
    /\ call' = [op |-> "Unroll", ret |-> Some(builder'[Len(builder')]), old |-> builder]
    /\ UNCHANGED <<bar, panic>>

NextCreation == CreationRoll \/ CreationUnroll

SpecCreation == Init /\ [][NextCreation]_vars

\* C33: the capacity of the inventory equals 10 + Strength: after
\* Player::new, after every stat allocation, and after Roll and Unroll have
\* replaced the stats of the Player.
C33_CapacityFollowsStrength ==
    player.inventory.capacity = 10 + Stats_index(player.stats, "Strength")

\* C34: the max of the encumbrance meter equals the current capacity of the
\* inventory, also after Strength and with it the capacity has grown, so that
\* the meter is done, and the trip to the market forced, exactly when the
\* quantity the meter has counted reaches the capacity.
C34_EncumbranceMaxIsCapacity ==
    /\ player.inventory.encumbrance.max = player.inventory.capacity
    /\ Bar_is_done(player.inventory.encumbrance)
           <=> player.inventory.encumbrance.pos >= player.inventory.capacity
\* C35: a Kill task is assigned only right after the completion of a Kill or
\* a HeadingOut task, with the queue empty and the encumbrance meter not
\* done; the queue never holds a Kill task and is empty while a Kill task is
\* current and not completed; so after a market trip or a purchase a
\* HeadingOut task comes before the next Kill.
C35_FightsFollowFightsOrHeadingOut ==
    /\ \A i \in 1..Len(player.queue) : player.queue[i].kind /= "Kill"
    /\ (/\ player.task /= None
        /\ Unwrap(player.task).kind = "Kill"
        /\ ~Bar_is_done(player.task_bar)) => player.queue = <<>>
    /\ (call.op = "Simulation::tick" /\ panic = None) =>
           \A i \in 1..Len(call.log.assigned) :
               call.log.assigned[i].kind = "Kill" =>
                   /\ i <= Len(call.log.completed)
                   /\ call.log.completed[i].kind \in {"Kill", "HeadingOut"}
                   /\ i = Len(call.log.assigned) =>
                          /\ player.queue = <<>>
                          /\ ~Bar_is_done(player.inventory.encumbrance)

\* C35 witness: after a sale the HeadingOut task has completed and a fight is
\* assigned with the queue empty.
C35_Witness ==
    /\ call.op = "Simulation::tick"
    /\ call.log.completed /= <<>>
    /\ call.log.completed[1].kind = "HeadingOut"
    /\ call.old.inventory.gold > 0
    /\ player.task /= None
    /\ Unwrap(player.task).kind = "Kill"
    /\ player.queue = <<>>

\* C36: a tick completes at most one task: the task that dequeue assigns
\* starts with its meter at pos 0 and not done, so the loop of dequeue ends
\* with it, its completion waits for a later tick, and every task takes at
\* least two ticks (one that advances the meter, clamped to max, and one that
\* completes the task).  Stated of the meter after set_task for a fight.
C36_AssignedTaskWaits ==
    call.op = "Task::monster" =>
        /\ bar = [pos |-> 0, max |-> call.ret.duration]
        /\ ~Bar_is_done(bar)

(***************************************************************************)
(* SpecProgress: the loop of the headless front-end, which calls tick for  *)
(* ever, on the resumed characters of SpecResume and on the character of   *)
(* SpecCareer whose experience meter is full.  Every tick has the smallest *)
(* elapsed time, so that the clock counts the ticks, and a tick that is    *)
(* possible is eventually taken.                                           *)
(***************************************************************************)
MaxProgressSeconds == 40

ProgressLimit == (ResumeSeconds + MaxProgressSeconds) * 1000

\* The smallest elapsed time of a tick.
MinElapsed == CHOOSE dt \in ElapsedValues : \A other \in ElapsedValues : dt <= other

InitProgress ==
    /\ \E roll \in {LowRoll} :
         /\ player \in Snapshots(roll)
                \cup {[Seasoned(roll, fights) EXCEPT
                          !.elapsed = ProgressLimit - MaxCareerSeconds * 1000] :
                        fights \in {f \in CareerFights : \A g \in CareerFights : g <= f}}
         /\ builder = StatsBuilder_roll(StatsBuilder_default, roll)
    /\ call = [op |-> "Simulation::new", plots |-> player.quest_book.act]
    /\ bar = IdleBar
    /\ panic = None

ProgressTick == TickWith({MinElapsed}, ProgressLimit)

NextProgress == ProgressTick

\* A tick is possible: the run has not failed and the clock is short of the limit.
TickPossible == panic = None /\ player.elapsed + MinElapsed <= ProgressLimit

\* Weak fairness of the tick.  Every tick advances the clock and every tick
\* that the limit allows has an outcome, so WF_vars(NextProgress) says that
\* the ticks go on until none is possible; it is written in that form.
SpecProgress == InitProgress /\ [][NextProgress]_vars /\ []<>(~TickPossible)
\* Seconds of ticks that are enough, in every run of SpecProgress, to bring a
\* player whose queue is empty and whose act is unfinished to a new fight.
KillPatience == 24

\* The current task is a fight whose meter is still running.
KillNow ==
    /\ player.task /= None
    /\ Unwrap(player.task).kind = "Kill"
    /\ ~Bar_is_done(player.task_bar)

\* C37: under ticks that go on, each with a positive elapsed time, the meter
\* of every current task becomes done when the clock leaves room for the
\* ticks it takes,
\* a task whose meter is done is replaced by one whose meter is not, a player
\* who has a task is never without one again, a player whose queue is empty
\* in an unfinished act comes to a new Kill task, a resumed act that is over
\* (its meter done, or its Plot task current) gives way to the next act, and
\* a full experience meter makes the level rise.
C37_Progress ==
    /\ (/\ player.task /= None
        /\ ~Bar_is_done(player.task_bar)
        /\ player.elapsed
             + CeilDiv(player.task_bar.max - player.task_bar.pos, MinElapsed) * MinElapsed
               <= ProgressLimit)
           ~> Bar_is_done(player.task_bar)
    /\ (player.task /= None /\ Bar_is_done(player.task_bar) /\ TickPossible)
           ~> ~Bar_is_done(player.task_bar)
    /\ [][player.task /= None => player'.task /= None]_vars
    /\ (/\ player.queue = <<>>
        /\ ~Bar_is_done(player.quest_book.plot)
        /\ player.elapsed + KillPatience * 1000 <= ProgressLimit)
           ~> KillNow
    /\ \A k \in 0..1 :
         (/\ call.op = "Simulation::new"
          /\ player.quest_book.act = k
          /\ \/ Bar_is_done(player.quest_book.plot)
             \/ Unwrap(player.task).kind = "Plot")
            ~> (player.quest_book.act = k + 1)
    /\ (call.op = "Simulation::new" /\ player.level = 1 /\ Bar_is_done(player.exp_bar))
           ~> (player.level = 2)

\* A tick of the loop has completed a fight whose meter was done, raised the
\* level and made the next fight the current task.
C37_Witness ==
    /\ call.op = "Simulation::tick"
    /\ call.old.task /= None
    /\ Unwrap(call.old.task).kind = "Kill"
    /\ Bar_is_done(call.old.task_bar)
    /\ player.level = call.old.level + 1
    /\ KillNow
    /\ player.elapsed > ResumeSeconds * 1000


(***************************************************************************)
(* Claims about the equipment a reward brings                              *)
(***************************************************************************)
\* The slots whose item the last call wrote or changed.
SlotsChanged ==
    {s \in DOMAIN player.equipment.items :
        \/ s \notin DOMAIN call.old.equipment.items
        \/ player.equipment.items[s] /= call.old.equipment.items[s]}

\* The names of the presets in the table that goes with a slot.
PresetNames(slot) ==
    {EquipmentTables(slot).stuff[i].name : i \in 1..Len(EquipmentTables(slot).stuff)}

\* C38: the item a tick writes into an equipment slot is built from the
\* presets of that slot: a weapon preset in the Weapon slot, a shield preset
\* in the Shield slot, an armor preset in one of the 8 armor slots.  (The
\* preset is the last word of the generated name.)
C38_SlotMatchesTable ==
    call.op = "Simulation::tick" =>
        \A s \in SlotsChanged :
            LET words == player.equipment.items[s].words
            IN  words[Len(words)] \in PresetNames(s)

(***************************************************************************)
(* SpecTui: the terminal front-end.  main builds App around               *)
(* Arc<Mutex<Simulation>>; the only way to the Simulation is App::get,     *)
(* which locks the mutex and returns the guard.  The loop of main locks,   *)
(* ticks and drops the guard at the end of the statement, then calls       *)
(* cursive.step(), which may run the Refresh callback: it locks, builds    *)
(* the view from the player and drops its guard.  Everything runs on the   *)
(* thread of main.  call holds the position of that thread (pc), the       *)
(* guards alive (guards) and what the view was built from (view).          *)
(***************************************************************************)
MaxTuiSeconds == 8

TuiLimit == (ResumeSeconds + MaxTuiSeconds) * 1000

\* What display reads of the player, as far as the claims look at it.
Displayed(p) == [elapsed |-> p.elapsed, task |-> p.task, task_bar |-> p.task_bar]

\* Mutex::lock for the guard `who`, called at position `at`: the guard is
\* taken when no guard is alive; a thread that locks the mutex it holds
\* never gets past the call.
Mutex_lock(c, who, at) ==
    IF c.guards = {}
    THEN [c EXCEPT !.op = "App::get", !.pc = at, !.guards = {who}]
    ELSE [c EXCEPT !.op = "App::get", !.pc = "blocked"]

\* The guard `who` is a temporary and is dropped when its statement ends.
MutexGuard_kept(guards, who) == guards

MutexGuard_drop(guards, who) == guards \ {who}

InitTui ==
    /\ \E roll \in {LowRoll} :
         /\ player \in Snapshots(roll)
         /\ builder = StatsBuilder_roll(StatsBuilder_default, roll)
    /\ call = [op |-> "Simulation::new", plots |-> player.quest_book.act,
               pc |-> "loop", guards |-> {}, view |-> Displayed(player)]
    /\ bar = IdleBar
    /\ panic = None

\* while cursive.is_running() { app.get() ...
TuiLockTick ==
    /\ call.pc = "loop"
    /\ panic = None
    /\ player.elapsed + MinElapsed <= TuiLimit
    /\ call' = Mutex_lock(call, "tick", "tick")
    /\ UNCHANGED <<player, builder, bar, panic>>

\* ... .simulation.tick(&rng) ...
TuiTick ==
    /\ call.pc = "tick"
    /\ \E x \in TickSteps(player, MinElapsed) : \E w \in TickEnd(x) :
         /\ player' = w.player
         /\ panic' = w.panic
         /\ call' = [call EXCEPT !.op = "Simulation::tick", !.pc = "ticked",
                                 !.plots = @ + PlotCount(w.log.completed)]
    /\ UNCHANGED <<builder, bar>>

\* ... ; (the end of the statement)
TuiDropTick ==
    /\ call.pc = "ticked"
    /\ call' = [call EXCEPT !.op = "drop", !.pc = "step",
                            !.guards = MutexGuard_drop(@, "tick")]
    /\ UNCHANGED <<player, builder, bar, panic>>

\* cursive.step(): the step delivers a Refresh event to the callback, or
\* delivers none and returns to the loop.
TuiStep ==
    /\ call.pc = "step"
    /\ \E refresh \in BOOLEAN :
         call' = [call EXCEPT !.op = "Cursive::step",
                              !.pc = IF refresh THEN "refresh" ELSE "loop"]
    /\ UNCHANGED <<player, builder, bar, panic>>

\* The callback: app.get() ...
TuiLockRefresh ==
    /\ call.pc = "refresh"
    /\ call' = Mutex_lock(call, "display", "display")
    /\ UNCHANGED <<player, builder, bar, panic>>

\* ... .display(); and the end of the statement.
TuiDisplay ==
    /\ call.pc = "display"
    /\ call' = [call EXCEPT !.op = "AppRef::display", !.pc = "loop",
                            !.view = Displayed(player),
                            !.guards = MutexGuard_drop(@, "display")]
    /\ UNCHANGED <<player, builder, bar, panic>>

NextTui ==
    \/ TuiLockTick
    \/ TuiTick
    \/ TuiDropTick
    \/ TuiStep
    \/ TuiLockRefresh
    \/ TuiDisplay

SpecTui == InitTui /\ [][NextTui]_vars

\* C39: the player changes only under the guard of the tick and the view is
\* built only under the guard of the display; at most one guard is alive, so
\* a tick and a display never overlap; no guard is alive when the loop or
\* the callback is about to lock, and the thread is never blocked on its own
\* mutex.
C39_LockDiscipline ==
    /\ call.pc \in {"tick", "ticked"} <=> call.guards = {"tick"}
    /\ call.pc = "display" <=> call.guards = {"display"}
    /\ call.pc \in {"loop", "step", "refresh"} => call.guards = {}
    /\ call.pc /= "blocked"
    /\ call.op = "Simulation::tick" => call.guards = {"tick"}
    /\ call.op = "AppRef::display" => call.view = Displayed(player)

\* The callback has rebuilt the view after a tick, and both guards are gone.
C39_Witness ==
    /\ call.op = "AppRef::display"
    /\ call.pc = "loop"
    /\ call.guards = {}
    /\ call.view.elapsed > ResumeSeconds * 1000

====
